---- MODULE Spec2Model ----
(***************************************************************************)
(* A model of the TSCH MAC core of Contiki (orchestra-testbed):            *)
(*   core/net/mac/tsch/tsch-schedule.c   slotframes, links, ASN -> link    *)
(*   core/net/mac/tsch/tsch-queue.c      neighbors, per-neighbor rings,    *)
(*                                       CSMA backoff                      *)
(*   core/net/mac/tsch/tsch.c            global lock, slot routine         *)
(*                                                                         *)
(* Pointers are pool indices (1..pool size), NULL is 0.  A pool entry      *)
(* carries the "used" flag that memb keeps in its count[] array.           *)
(* Task-level functions are operators over a memory record m (the fields   *)
(* of Mem below); an operator that returns a value returns [m, r].         *)
(***************************************************************************)
EXTENDS Integers, Sequences, FiniteSets, TLC

\* ------------------------------------------------------------------ bounds
\* Pool sizes and input ranges of the model (configuration of the build).
MaxLinks == 2             \* TSCH_MAX_LINKS entries of link_memb
MaxNbrs == 4              \* TSCH_QUEUE_MAX_NEIGHBOR_QUEUES entries of neighbor_memb
MaxPackets == 3           \* QUEUEBUF_NUM entries of packet_memb
QueueExp == 1             \* TSCH_QUEUE_NUM_PER_NEIGHBOR = 2^QueueExp
MaxTimeslot == 1          \* timeslots given to add_link: 0..MaxTimeslot
MaxAsn == 4               \* the slot engine is followed up to this ASN
MaxDraws == 3             \* calls of tsch_random_byte that are followed
MaxPayload == 2           \* payloads given to add_packet: 1..MaxPayload
MaxRetries == 1           \* MAC_MAX_FRAME_RETRIES
MaxMissed == 1            \* deadlines missed in a row when a slot is scheduled
MaxHopAsn == 33           \* hop_channel is followed for the ASNs 0..MaxHopAsn
MaxChannelOffset == 17    \* and the channel offsets 0..MaxChannelOffset
TsSlotDuration == 100     \* rtimer ticks of a timeslot
TsLongGT == 40            \* rtimer ticks of the long guard time
DesyncThresholdSlots == 2 \* TSCH_DESYNC_THRESHOLD in timeslots
TSCH_MAX_JOIN_PRIORITY == 2 \* join priorities from this on are refused
MaxIncoming == 2          \* TSCH_MAX_INCOMING_PACKETS frames of the input ring
MaxDrops == 2             \* RX slots in a row that find the input ring full

\* --------------------------------------------------------------- constants
NULL == 0
tsch_eb_address == 0           \* all-zero address (== linkaddr_null)
tsch_broadcast_address == 255  \* all-0xFF address
TSCH_MAX_SLOTFRAMES == 4
Pow2(n) == 2 ^ n
TSCH_QUEUE_NUM_PER_NEIGHBOR == Pow2(QueueExp)
MAC_MIN_BE == 2
MAC_MAX_BE == 4
MAC_TX_OK == "Ok"
MAC_TX_ERR == "Err"
MAC_TX_DEFERRED == "Deferred"
MAC_TX_NOACK == "NoAck"
MAC_TX_COLLISION == "Collision"
MAC_TX_ERR_FATAL == "FatalErr"

\* Unicast addresses used as inputs, beside the two well-known ones.
UnicastAddrs == {1, 2}
\* Slotframes given to add_slotframe: <<handle, size>>.
Slotframes == {<<0, 2>>, <<1, 3>>}
\* link_options: the LINK_OPTION_* bits as a set of names.
LinkOptionSets == {{"RX"}, {"TX"}, {"TX", "SHARED"}}

Min(a, b) == IF a < b THEN a ELSE b
U8(x) == x % 256
U16(x) == x % 65536

\* ------------------------------------------------------------------- state
VARIABLES
  tsch_is_coordinator,     \* whether the node is the PAN coordinator
  slotframe_list,          \* LIST(slotframe_list): slotframes in list order
  link_memb,               \* MEMB(link_memb): link pointer -> struct tsch_link
  neighbor_list,           \* LIST(neighbor_list): neighbor pointers in list order
  neighbor_memb,           \* MEMB(neighbor_memb): pointer -> struct tsch_neighbor
  packet_memb,             \* MEMB(packet_memb): pointer -> struct tsch_packet
  n_eb, n_broadcast,       \* the virtual neighbors' pointers
  tsch_locked,             \* the global lock
  tsch_lock_requested,
  tsch_in_link_operation,
  current_link,            \* link pointer or NULL
  current_asn,
  associated,
  tsch_random_seed,
  draws,                   \* calls of tsch_random_byte so far (bounds the run)
  sent_cb,                 \* the last mac_call_sent_callback: [n, status, transmissions]
  dequeued_array,          \* packets the slot routine handed back to the process
  current_channel,         \* the radio channel of the last hop
  drift_correction,        \* last estimated drift, in rtimer ticks
  last_sync_asn,           \* ASN of the last synchronisation
  tsch_join_priority,
  current_link_start,      \* rtimer time of the start of the current slot
  mac_tx_status,           \* the static mac_tx_status of tsch_tx_link
  input_array,             \* the frames in the input ring, oldest first
  input_queue_drop,        \* the static input_queue_drop of tsch_rx_link
  task,                    \* the task-level call in progress or just returned
  isr                      \* position of the slot routine (timer interrupt)

vars == <<tsch_is_coordinator, slotframe_list, link_memb, neighbor_list, neighbor_memb, packet_memb,
          n_eb, n_broadcast, tsch_locked, tsch_lock_requested,
          tsch_in_link_operation, current_link, current_asn, associated,
          tsch_random_seed, draws, sent_cb, dequeued_array, current_channel,
          drift_correction, last_sync_asn, tsch_join_priority, current_link_start,
          mac_tx_status, input_array, input_queue_drop,
          task, isr>>

\* The memory task-level functions work on.
Mem == [slotframe_list |-> slotframe_list, link_memb |-> link_memb,
        neighbor_list |-> neighbor_list, neighbor_memb |-> neighbor_memb,
        packet_memb |-> packet_memb, tsch_locked |-> tsch_locked,
        current_link |-> current_link, tsch_random_seed |-> tsch_random_seed,
        draws |-> draws, sent_cb |-> sent_cb, dequeued_array |-> dequeued_array,
        current_asn |-> current_asn, current_channel |-> current_channel,
        drift_correction |-> drift_correction, last_sync_asn |-> last_sync_asn,
        tsch_join_priority |-> tsch_join_priority,
        current_link_start |-> current_link_start,
        mac_tx_status |-> mac_tx_status, input_array |-> input_array,
        input_queue_drop |-> input_queue_drop]

SetMem(m) ==
  /\ slotframe_list' = m.slotframe_list
  /\ link_memb' = m.link_memb
  /\ neighbor_list' = m.neighbor_list
  /\ neighbor_memb' = m.neighbor_memb
  /\ packet_memb' = m.packet_memb
  /\ tsch_locked' = m.tsch_locked
  /\ current_link' = m.current_link
  /\ tsch_random_seed' = m.tsch_random_seed
  /\ draws' = m.draws
  /\ sent_cb' = m.sent_cb
  /\ dequeued_array' = m.dequeued_array
  /\ current_asn' = m.current_asn
  /\ current_channel' = m.current_channel
  /\ drift_correction' = m.drift_correction
  /\ last_sync_asn' = m.last_sync_asn
  /\ tsch_join_priority' = m.tsch_join_priority
  /\ current_link_start' = m.current_link_start
  /\ mac_tx_status' = m.mac_tx_status
  /\ input_array' = m.input_array
  /\ input_queue_drop' = m.input_queue_drop

\* v, evaluated once, as the argument of F.
Bind(v, F(_)) == F(v)

\* --------------------------------------------------------------- lib/list
\* list_add: the item is taken out if present and appended at the tail.
list_remove(list, item) == SelectSeq(list, LAMBDA x : x # item)
list_add(list, item) == Append(list_remove(list, item), item)

\* memb_alloc: the first free entry of a pool, NULL when there is none.
memb_alloc(pool) ==
  IF \E p \in DOMAIN pool : ~pool[p].used
  THEN CHOOSE p \in DOMAIN pool :
         ~pool[p].used /\ \A q \in DOMAIN pool : q < p => pool[q].used
  ELSE NULL

\* ---------------------------------------------------------- struct layouts
FreeLink == [used |-> FALSE, link_options |-> {}, link_type |-> "NORMAL",
             slotframe_handle |-> 0, timeslot |-> 0, channel_offset |-> 0,
             addr |-> 0]

QueueIdx == 0 .. (TSCH_QUEUE_NUM_PER_NEIGHBOR - 1)

FreeNbr == [used |-> FALSE, addr |-> 0, is_broadcast |-> 0, is_time_source |-> 0,
            backoff_exponent |-> 0, backoff_window |-> 0,
            tx_links_count |-> 0, dedicated_tx_links_count |-> 0,
            tx_array |-> [i \in QueueIdx |-> NULL], put_ptr |-> 0, get_ptr |-> 0]

FreePacket == [used |-> FALSE, qb |-> NULL, sent |-> NULL, ret |-> MAC_TX_DEFERRED,
               transmissions |-> 0]

NoCallback == [called |-> FALSE, status |-> MAC_TX_DEFERRED, transmissions |-> 0]

\* ------------------------------------------------------------ tsch.c: lock
tsch_is_locked(m) == m.tsch_locked

\* tsch_get_lock at task level while no slot operation is in progress (the
\* busy wait is over): r = 1 and the lock is taken iff it was free.
tsch_get_lock(m) ==
  IF m.tsch_locked = 0
  THEN [m |-> [m EXCEPT !.tsch_locked = 1], r |-> 1]
  ELSE [m |-> m, r |-> 0]

tsch_release_lock(m) == [m EXCEPT !.tsch_locked = 0]

\* ------------------------------------------------- tsch-queue.c: neighbors
\* Position in list order of the first element satisfying P, 0 when none.
FirstPos(list, P(_)) ==
  IF \E i \in 1 .. Len(list) : P(list[i])
  THEN CHOOSE i \in 1 .. Len(list) :
         P(list[i]) /\ \A j \in 1 .. (i - 1) : ~P(list[j])
  ELSE 0

tsch_queue_get_nbr(m, addr) ==
  IF tsch_is_locked(m) = 0
  THEN LET i == FirstPos(m.neighbor_list,
                         LAMBDA n : m.neighbor_memb[n].addr = addr)
       IN IF i = 0 THEN NULL ELSE m.neighbor_list[i]
  ELSE NULL

tsch_queue_backoff_reset(nbr) ==
  [nbr EXCEPT !.backoff_window = 0, !.backoff_exponent = MAC_MIN_BE]

\* The neighbor entry as tsch_queue_add_nbr initializes it.
NewNbr(addr) ==
  tsch_queue_backoff_reset(
    [FreeNbr EXCEPT !.used = TRUE, !.addr = addr,
       !.is_broadcast = IF addr = tsch_eb_address \/ addr = tsch_broadcast_address
                        THEN 1 ELSE 0])

tsch_queue_add_nbr(m, addr) ==
  Bind(tsch_queue_get_nbr(m, addr), LAMBDA n0 :
  IF n0 # NULL THEN [m |-> m, r |-> n0]
  ELSE Bind(tsch_get_lock(m), LAMBDA g :
       IF g.r = 1
       THEN Bind(memb_alloc(g.m.neighbor_memb), LAMBDA n :
            IF n # NULL
            THEN [m |-> tsch_release_lock(
                          [g.m EXCEPT !.neighbor_memb[n] = NewNbr(addr),
                                      !.neighbor_list = list_add(@, n)]),
                  r |-> n]
            ELSE [m |-> tsch_release_lock(g.m), r |-> NULL])
       ELSE [m |-> m, r |-> NULL]))

\* ------------------------------------------------------- tsch-schedule.c
\* A slotframe pointer is the slotframe's position in slotframe_list.
tsch_schedule_get_slotframe_from_handle(m, handle) ==
  IF tsch_is_locked(m) = 0
  THEN FirstPos(m.slotframe_list, LAMBDA sf : sf.handle = handle)
  ELSE NULL

tsch_schedule_add_slotframe(m, handle, size) ==
  IF tsch_schedule_get_slotframe_from_handle(m, handle) # NULL
  THEN [m |-> m, r |-> NULL]
  ELSE Bind(tsch_get_lock(m), LAMBDA g :
       IF g.r = 1
       THEN IF Len(g.m.slotframe_list) < TSCH_MAX_SLOTFRAMES
            THEN [m |-> tsch_release_lock(
                          [g.m EXCEPT !.slotframe_list =
                             Append(@, [handle |-> handle, size |-> size,
                                        links_list |-> <<>>])]),
                  r |-> Len(g.m.slotframe_list) + 1]
            ELSE [m |-> tsch_release_lock(g.m), r |-> NULL]
       ELSE [m |-> m, r |-> NULL])

tsch_schedule_get_link_from_timeslot(m, sf, timeslot) ==
  IF tsch_is_locked(m) = 0 /\ sf # NULL
  THEN LET ll == m.slotframe_list[sf].links_list
           i == FirstPos(ll, LAMBDA l : m.link_memb[l].timeslot = timeslot)
       IN IF i = 0 THEN NULL ELSE ll[i]
  ELSE NULL

\* The counter update that follows the release of the lock in remove_link.
RemoveLinkCounters(m, link_options, addr) ==
  IF "TX" \in link_options
  THEN Bind(tsch_queue_add_nbr(m, addr), LAMBDA a :
       IF a.r # NULL
       THEN [a.m EXCEPT
               !.neighbor_memb[a.r].tx_links_count = U8(@ - 1),
               !.neighbor_memb[a.r].dedicated_tx_links_count =
                  IF "SHARED" \notin link_options THEN U8(@ - 1) ELSE @]
       ELSE a.m)
  ELSE m

tsch_schedule_remove_link(m, sf, l) ==
  IF sf # NULL /\ l # NULL
     /\ m.link_memb[l].slotframe_handle = m.slotframe_list[sf].handle
  THEN Bind(tsch_get_lock(m), LAMBDA g :
       IF g.r = 1
       THEN LET link_options == g.m.link_memb[l].link_options
                addr == g.m.link_memb[l].addr
                m1 == [g.m EXCEPT
                         !.current_link = IF l = @ THEN NULL ELSE @,
                         !.slotframe_list[sf].links_list = list_remove(@, l),
                         !.link_memb[l] = FreeLink]
            IN [m |-> RemoveLinkCounters(tsch_release_lock(m1), link_options, addr),
                r |-> 1]
       ELSE [m |-> m, r |-> 0])
  ELSE [m |-> m, r |-> 0]

tsch_schedule_remove_link_from_timeslot(m, sf, timeslot) ==
  IF sf # NULL
  THEN tsch_schedule_remove_link(m, sf,
         tsch_schedule_get_link_from_timeslot(m, sf, timeslot))
  ELSE [m |-> m, r |-> 0]

\* The counter update that follows the release of the lock in add_link.
AddLinkCounters(m, link_options, addr) ==
  IF "TX" \in link_options
  THEN Bind(tsch_queue_add_nbr(m, addr), LAMBDA a :
       IF a.r # NULL
       THEN [a.m EXCEPT
               !.neighbor_memb[a.r].tx_links_count = U8(@ + 1),
               !.neighbor_memb[a.r].dedicated_tx_links_count =
                  IF "SHARED" \notin link_options THEN U8(@ + 1) ELSE @]
       ELSE a.m)
  ELSE m

\* add_link without the removal of the link installed at the timeslot.
AddLinkNoReplace(m, sf, timeslot) ==
  [m |-> m, r |-> 0]

AddLinkReplace(m, sf, timeslot) ==
  tsch_schedule_remove_link_from_timeslot(m, sf, timeslot)

tsch_schedule_add_link(m, sf, link_options, link_type, address, timeslot, channel_offset) ==
  IF sf # NULL
  THEN Bind(AddLinkReplace(m, sf, timeslot).m, LAMBDA m0 :
       Bind(tsch_get_lock(m0), LAMBDA g :
          IF g.r = 0 THEN [m |-> m0, r |-> NULL]
          ELSE Bind(memb_alloc(g.m.link_memb), LAMBDA l :
               IF l = NULL THEN [m |-> g.m, r |-> NULL]
               ELSE LET m1 == [g.m EXCEPT
                                 !.slotframe_list[sf].links_list = list_add(@, l),
                                 !.link_memb[l] =
                                    [used |-> TRUE, link_options |-> link_options,
                                     link_type |-> link_type,
                                     slotframe_handle |-> g.m.slotframe_list[sf].handle,
                                     timeslot |-> timeslot,
                                     channel_offset |-> channel_offset,
                                     addr |-> address]]
                    IN [m |-> AddLinkCounters(tsch_release_lock(m1), link_options, address),
                        r |-> l])))
  ELSE [m |-> m, r |-> NULL]

tsch_schedule_remove_slotframe(m, sf) ==
  IF sf # NULL
  THEN LET RECURSIVE RemoveAll(_)
           RemoveAll(mm) ==
             IF mm.slotframe_list[sf].links_list = <<>> THEN mm
             ELSE RemoveAll(tsch_schedule_remove_link(
                              mm, sf, Head(mm.slotframe_list[sf].links_list)).m)
       IN Bind(RemoveAll(m), LAMBDA m1 :
          Bind(tsch_get_lock(m1), LAMBDA g :
          IF g.r = 1
          THEN [m |-> tsch_release_lock(
                        [g.m EXCEPT !.slotframe_list =
                           [i \in 1 .. (Len(@) - 1) |->
                              IF i < sf THEN @[i] ELSE @[i + 1]]]),
                r |-> 1]
          ELSE [m |-> m1, r |-> 0]))
  ELSE [m |-> m, r |-> 0]

\* ASN_MOD(asn, divisor): the ASN modulo the slotframe size.
ASN_MOD(asn, size) == asn % size

\* ASN_DIFF(asn1, asn2): the signed distance of two ASNs.
ASN_DIFF(asn1, asn2) == asn1 - asn2

\* The priority rule of get_link_from_asn with TSCH_SCHEDULE_PRIORITIZE_TX:
\* the link l replaces the current best iff they agree on TX and l's slotframe
\* handle is smaller, or they differ on TX and l has it.
BetterLink(m, best, l) ==
  IF ("TX" \in m.link_memb[best].link_options) = ("TX" \in m.link_memb[l].link_options)
  THEN m.link_memb[l].slotframe_handle < m.link_memb[best].slotframe_handle
  ELSE "TX" \in m.link_memb[l].link_options

tsch_schedule_get_link_from_asn(m, asn) ==
  LET RECURSIVE Scan(_, _)
      Scan(i, curr_best) ==
        IF i > Len(m.slotframe_list) THEN curr_best
        ELSE LET timeslot == ASN_MOD(asn, m.slotframe_list[i].size)
                 l == tsch_schedule_get_link_from_timeslot(m, i, timeslot)
             IN Scan(i + 1,
                     IF l = NULL THEN curr_best
                     ELSE IF curr_best = NULL THEN l
                     ELSE IF BetterLink(m, curr_best, l) THEN l
                     ELSE curr_best)
  IN Scan(1, NULL)

\* A lookup that would count the timeslot of asn itself as the next one.
tsch_schedule_get_next_active_link_same_slot(m, asn, prev) ==
  IF tsch_is_locked(m) = 0
  THEN LET RECURSIVE ScanLinks(_, _, _)
           ScanLinks(i, k, acc) ==
             IF i > Len(m.slotframe_list) THEN acc
             ELSE IF k > Len(m.slotframe_list[i].links_list)
             THEN ScanLinks(i + 1, 1, acc)
             ELSE LET sf == m.slotframe_list[i]
                      l == sf.links_list[k]
                      timeslot == ASN_MOD(asn, sf.size)
                      lt == m.link_memb[l].timeslot
                      time_to_timeslot ==
                        IF lt >= timeslot THEN U16(lt - timeslot)
                        ELSE U16(sf.size + lt - timeslot)
                  IN ScanLinks(i, k + 1,
                       IF acc.link = NULL \/ time_to_timeslot < acc.time_offset
                       THEN [link |-> l, time_offset |-> time_to_timeslot]
                       ELSE acc)
       IN ScanLinks(1, 1, [link |-> NULL, time_offset |-> 0])
  ELSE [link |-> NULL, time_offset |-> prev]

\* get_next_active_link: [link, time_offset]; time_offset is left as the caller
\* had it (prev) when the lock is held.
tsch_schedule_get_next_active_link(m, asn, prev) ==
  IF tsch_is_locked(m) = 0
  THEN LET RECURSIVE ScanLinks(_, _, _)
           ScanLinks(i, k, acc) ==
             IF i > Len(m.slotframe_list) THEN acc
             ELSE IF k > Len(m.slotframe_list[i].links_list)
             THEN ScanLinks(i + 1, 1, acc)
             ELSE LET sf == m.slotframe_list[i]
                      l == sf.links_list[k]
                      timeslot == ASN_MOD(asn, sf.size)
                      lt == m.link_memb[l].timeslot
                      time_to_timeslot ==
                        IF lt > timeslot THEN U16(lt - timeslot)
                        ELSE U16(sf.size + lt - timeslot)
                  IN ScanLinks(i, k + 1,
                       IF acc.time_offset = 0 \/ time_to_timeslot < acc.time_offset
                       THEN [link |-> l, time_offset |-> time_to_timeslot]
                       ELSE acc)
       IN ScanLinks(1, 1, [link |-> NULL, time_offset |-> 0])
  ELSE [link |-> NULL, time_offset |-> prev]

\* --------------------------------------------- tsch-queue.c: ring and packets
\* lib/ringbufindex over (put_ptr, get_ptr): a ring of TSCH_QUEUE_NUM_PER_NEIGHBOR
\* slots.  The pointers run modulo twice the size, the slot is the pointer
\* modulo the size, so that the ring holds as many elements as it has slots.
RingSize == TSCH_QUEUE_NUM_PER_NEIGHBOR
ringbufindex_elements(nbr) == (nbr.put_ptr - nbr.get_ptr) % (2 * RingSize)
ringbufindex_empty(nbr) == nbr.put_ptr = nbr.get_ptr
ringbufindex_full(nbr) == ringbufindex_elements(nbr) = RingSize
ringbufindex_peek_put(nbr) ==
  IF ringbufindex_full(nbr) THEN -1 ELSE nbr.put_ptr % RingSize
ringbufindex_put(nbr) ==
  IF ringbufindex_full(nbr) THEN nbr
  ELSE [nbr EXCEPT !.put_ptr = (@ + 1) % (2 * RingSize)]
ringbufindex_peek_get(nbr) ==
  IF ringbufindex_empty(nbr) THEN -1 ELSE nbr.get_ptr % RingSize
ringbufindex_get(nbr) ==
  IF ringbufindex_empty(nbr) THEN nbr
  ELSE [nbr EXCEPT !.get_ptr = (@ + 1) % (2 * RingSize)]

\* mac_call_sent_callback(sent, ptr, status, transmissions): the upper layer's
\* callback, when there is one, sees the status and the transmission count.
mac_call_sent_callback(m, sent, status, transmissions) ==
  IF sent # NULL
  THEN [m EXCEPT !.sent_cb = [called |-> TRUE, status |-> status,
                              transmissions |-> transmissions]]
  ELSE m

tsch_queue_is_empty(m, n) ==
  tsch_is_locked(m) = 0 /\ n # NULL /\ ringbufindex_empty(m.neighbor_memb[n])

tsch_queue_remove_packet_from_queue(m, n) ==
  IF tsch_is_locked(m) = 0 /\ n # NULL
  THEN Bind(ringbufindex_peek_get(m.neighbor_memb[n]), LAMBDA get_index :
       IF get_index # -1
       THEN [m |-> [m EXCEPT !.neighbor_memb[n] = ringbufindex_get(@)],
             r |-> m.neighbor_memb[n].tx_array[get_index]]
       ELSE [m |-> m, r |-> NULL])
  ELSE [m |-> m, r |-> NULL]

tsch_queue_free_packet(m, p) ==
  IF p # NULL THEN [m EXCEPT !.packet_memb[p] = FreePacket] ELSE m

\* Called with the lock free only (remove_nbr after its release, flush_all
\* under its own test), so that the loop ends.
RECURSIVE tsch_queue_flush_nbr_queue(_, _)
tsch_queue_flush_nbr_queue(m, n) ==
  IF tsch_queue_is_empty(m, n) THEN m
  ELSE Bind(tsch_queue_remove_packet_from_queue(m, n), LAMBDA d :
       IF d.r # NULL
       THEN tsch_queue_flush_nbr_queue(
              tsch_queue_free_packet(
                mac_call_sent_callback(d.m, d.m.packet_memb[d.r].sent, MAC_TX_ERR,
                                       d.m.packet_memb[d.r].transmissions),
                d.r),
              n)
       ELSE tsch_queue_flush_nbr_queue(d.m, n))

tsch_queue_remove_nbr(m, n) ==
  IF n # NULL
  THEN Bind(tsch_get_lock(m), LAMBDA g :
       IF g.r = 1
       THEN Bind(tsch_release_lock(
                        [g.m EXCEPT !.neighbor_list = list_remove(@, n)]), LAMBDA m1 :
            Bind(tsch_queue_flush_nbr_queue(m1, n), LAMBDA m2 :
            [m2 EXCEPT !.neighbor_memb[n] = FreeNbr]))
       ELSE m)
  ELSE m

tsch_queue_flush_all(m) ==
  IF tsch_is_locked(m) = 0
  THEN LET RECURSIVE Loop(_, _)
           Loop(mm, i) ==
             IF i > Len(m.neighbor_list) THEN mm
             ELSE Loop(tsch_queue_flush_nbr_queue(mm, m.neighbor_list[i]), i + 1)
       IN Loop(m, 1)
  ELSE m

\* The neighbor is one that free_unused_neighbors deallocates.
NbrUnused(m, n) ==
  /\ m.neighbor_memb[n].is_broadcast = 0
  /\ m.neighbor_memb[n].is_time_source = 0
  /\ m.neighbor_memb[n].tx_links_count = 0
  /\ tsch_queue_is_empty(m, n)

tsch_queue_free_unused_neighbors(m) ==
  IF tsch_is_locked(m) = 0
  THEN LET RECURSIVE Loop(_, _)
           Loop(mm, i) ==
             IF i > Len(m.neighbor_list) THEN mm
             ELSE Loop(IF NbrUnused(mm, m.neighbor_list[i])
                       THEN tsch_queue_remove_nbr(mm, m.neighbor_list[i])
                       ELSE mm,
                       i + 1)
       IN Loop(m, 1)
  ELSE m

tsch_queue_get_time_source(m) ==
  IF tsch_is_locked(m) = 0
  THEN LET i == FirstPos(m.neighbor_list,
                         LAMBDA n : m.neighbor_memb[n].is_time_source = 1)
       IN IF i = 0 THEN NULL ELSE m.neighbor_list[i]
  ELSE NULL

\* new_addr = NULL is passed as -1 (no address).
tsch_queue_update_time_source(m, new_addr) ==
  IF tsch_is_locked(m) = 0 /\ tsch_is_coordinator = 0
  THEN Bind(tsch_queue_get_time_source(m), LAMBDA old_time_src :
       Bind(IF new_addr # -1 THEN tsch_queue_add_nbr(m, new_addr)
                ELSE [m |-> m, r |-> NULL], LAMBDA a :
       Bind(a.r, LAMBDA new_time_src :
       IF new_time_src # old_time_src
          THEN Bind(IF new_time_src # NULL
                         THEN [a.m EXCEPT !.neighbor_memb[new_time_src].is_time_source = 1]
                         ELSE a.m, LAMBDA m1 :
               Bind(IF old_time_src # NULL
                         THEN [m1 EXCEPT !.neighbor_memb[old_time_src].is_time_source = 0]
                         ELSE m1, LAMBDA m2 :
               [m |-> m2, r |-> 1]))
          ELSE [m |-> a.m, r |-> 0])))
  ELSE [m |-> m, r |-> 0]

\* -------------------------------------------- tsch-queue.c: packets, backoff
tsch_queue_packet_count(m, addr) ==
  IF tsch_is_locked(m) = 0
  THEN Bind(tsch_queue_add_nbr(m, addr), LAMBDA a :
       IF a.r # NULL
       THEN [m |-> a.m, r |-> ringbufindex_elements(a.m.neighbor_memb[a.r])]
       ELSE [m |-> a.m, r |-> -1])
  ELSE [m |-> m, r |-> -1]

\* The slot of tx_array that add_packet writes the packet to.
AddPacketSlotZero(put_index) ==
  0

AddPacketSlot(put_index) ==
  put_index

\* add_packet up to and including the write of tx_array[put_index]: the packet
\* is filled in and stored but not yet published.  qb_ok tells whether
\* queuebuf_new_from_packetbuf finds a buffer; payload is the frame in packetbuf.
\* Result: n, p (NULL on failure) and the memory.
tsch_queue_add_packet_fill(m, addr, sent, payload, qb_ok) ==
  IF tsch_is_locked(m) = 0
  THEN Bind(tsch_queue_add_nbr(m, addr), LAMBDA a :
       Bind(a.r, LAMBDA n :
       IF n # NULL
          THEN Bind(ringbufindex_peek_put(a.m.neighbor_memb[n]), LAMBDA put_index :
               IF put_index # -1
               THEN Bind(memb_alloc(a.m.packet_memb), LAMBDA p :
                    IF p # NULL /\ qb_ok
                    THEN [m |-> [a.m EXCEPT
                                   !.packet_memb[p] =
                                      [used |-> TRUE, qb |-> payload, sent |-> sent,
                                       ret |-> MAC_TX_DEFERRED, transmissions |-> 0],
                                   !.neighbor_memb[n].tx_array[AddPacketSlot(put_index)] = p],
                          n |-> n, p |-> p]
                    ELSE [m |-> a.m, n |-> n, p |-> NULL])
               ELSE [m |-> a.m, n |-> n, p |-> NULL])
          ELSE [m |-> a.m, n |-> NULL, p |-> NULL]))
  ELSE [m |-> m, n |-> NULL, p |-> NULL]

\* The commit of add_packet: ringbufindex_put publishes the slot.
tsch_queue_add_packet_put(m, n) ==
  [m EXCEPT !.neighbor_memb[n] = ringbufindex_put(@)]

tsch_queue_add_packet(m, addr, sent, payload, qb_ok) ==
  Bind(tsch_queue_add_packet_fill(m, addr, sent, payload, qb_ok), LAMBDA f :
  IF f.p # NULL
  THEN [m |-> tsch_queue_add_packet_put(f.m, f.n), r |-> 1]
  ELSE [m |-> f.m, r |-> 0])

tsch_queue_backoff_expired(nbr) == nbr.backoff_window = 0

tsch_queue_get_packet_for_nbr(m, n, is_shared_link) ==
  IF tsch_is_locked(m) = 0 /\ n # NULL
  THEN Bind(ringbufindex_peek_get(m.neighbor_memb[n]), LAMBDA get_index :
       IF get_index # -1
          /\ ~(is_shared_link # 0 /\ ~tsch_queue_backoff_expired(m.neighbor_memb[n]))
       THEN m.neighbor_memb[n].tx_array[get_index]
       ELSE NULL)
  ELSE NULL

\* a & b on naturals.
RECURSIVE BitAnd(_, _)
BitAnd(a, b) ==
  IF a = 0 \/ b = 0 THEN 0
  ELSE (a % 2) * (b % 2) + 2 * BitAnd(a \div 2, b \div 2)

\* tsch_random_byte: seed = seed * 1103515245 + 12345 on 32 bits, the result
\* is bits 16..30 of the seed masked with window.  The seed is kept as two
\* 16-bit halves [hi, lo]; 1103515245 = 16838 * 65536 + 20077.
RandomSeedNext(seed) ==
  Bind(seed.lo * 20077 + 12345, LAMBDA low :
  Bind((low \div 65536) + U16(seed.hi * 20077) + U16(seed.lo * 16838), LAMBDA high :
  [hi |-> U16(high), lo |-> U16(low)]))

tsch_random_byte(m, window) ==
  Bind(RandomSeedNext(m.tsch_random_seed), LAMBDA seed :
  [m |-> [m EXCEPT !.tsch_random_seed = seed, !.draws = @ + 1],
   r |-> U8(BitAnd(seed.hi % 32768, window))])

\* The window backoff_inc is left with, given the byte drawn.
BackoffWindowNoMask(m, exponent) ==
  Bind(tsch_random_byte(m, 255), LAMBDA d : [d EXCEPT !.r = U8(d.r + 1)])

BackoffWindow(m, exponent) ==
  Bind(tsch_random_byte(m, U8(Pow2(exponent) - 1)), LAMBDA d : [d EXCEPT !.r = U8(d.r + 1)])

tsch_queue_backoff_inc_uncapped(m, n) ==
  Bind(m.neighbor_memb[n].backoff_exponent + 1, LAMBDA exponent :
  Bind(BackoffWindow(m, exponent), LAMBDA w :
  [w.m EXCEPT !.neighbor_memb[n].backoff_exponent = exponent,
                 !.neighbor_memb[n].backoff_window = w.r]))

tsch_queue_backoff_inc(m, n) ==
  Bind(Min(m.neighbor_memb[n].backoff_exponent + 1, MAC_MAX_BE), LAMBDA exponent :
  Bind(BackoffWindow(m, exponent), LAMBDA w :
  [w.m EXCEPT !.neighbor_memb[n].backoff_exponent = exponent,
                 !.neighbor_memb[n].backoff_window = w.r]))

tsch_queue_update_all_backoff_windows_any_dest(m, dest_addr) ==
  IF tsch_is_locked(m) = 0
  THEN [m EXCEPT !.neighbor_memb =
          [n \in DOMAIN @ |->
             IF /\ \E i \in 1 .. Len(m.neighbor_list) : m.neighbor_list[i] = n
                /\ @[n].backoff_window # 0
             THEN [@[n] EXCEPT !.backoff_window = @ - 1]
             ELSE @[n]]]
  ELSE m

tsch_queue_update_all_backoff_windows(m, dest_addr) ==
  IF tsch_is_locked(m) = 0
  THEN LET is_broadcast == dest_addr = tsch_broadcast_address IN
       [m EXCEPT !.neighbor_memb =
          [n \in DOMAIN @ |->
             IF /\ \E i \in 1 .. Len(m.neighbor_list) : m.neighbor_list[i] = n
                /\ @[n].backoff_window # 0
                /\ \/ (@[n].tx_links_count = 0 /\ is_broadcast)
                   \/ (@[n].tx_links_count > 0 /\ dest_addr = @[n].addr)
             THEN [@[n] EXCEPT !.backoff_window = @ - 1]
             ELSE @[n]]]
  ELSE m

\* get_unicast_packet_for_any: the first neighbor in list order that is not
\* virtual, has no TX link and has a packet to give: [p, n]; n is left as the
\* caller had it (n0) when there is none.
tsch_queue_get_unicast_packet_for_any(m, n0, is_shared_link) ==
  IF tsch_is_locked(m) = 0
  THEN Bind(FirstPos(m.neighbor_list,
                  LAMBDA c : /\ m.neighbor_memb[c].is_broadcast = 0
                             /\ m.neighbor_memb[c].tx_links_count = 0
                             /\ tsch_queue_get_packet_for_nbr(m, c, is_shared_link) # NULL), LAMBDA i :
       IF i = 0 THEN [p |-> NULL, n |-> n0]
          ELSE [p |-> tsch_queue_get_packet_for_nbr(m, m.neighbor_list[i], is_shared_link),
                n |-> m.neighbor_list[i]])
  ELSE [p |-> NULL, n |-> n0]

get_packet_and_neighbor_for_link_data_after_eb(m, l, neb, nbc) ==
  LET link == m.link_memb[l] IN
  LET is_shared_link == IF "SHARED" \in link.link_options THEN 1 ELSE 0
  IN IF "TX" \in link.link_options
     THEN Bind(IF link.link_type \in {"ADVERTISING", "ADVERTISING_ONLY"}
                    THEN [p |-> tsch_queue_get_packet_for_nbr(m, neb, 0), n |-> neb]
                    ELSE [p |-> NULL, n |-> NULL], LAMBDA eb :
          IF eb.p = NULL
             THEN Bind(tsch_queue_get_nbr(m, link.addr), LAMBDA n :
                  Bind(tsch_queue_get_packet_for_nbr(m, n, is_shared_link), LAMBDA p :
                  IF p = NULL /\ n = nbc
                     THEN tsch_queue_get_unicast_packet_for_any(m, n, is_shared_link)
                     ELSE [p |-> p, n |-> n]))
             ELSE eb)
     ELSE [p |-> NULL, n |-> NULL]

\* get_packet_and_neighbor_for_link: the packet and the neighbor of a slot on
\* link l; neb and nbc are n_eb and n_broadcast.
get_packet_and_neighbor_for_link(m, l, neb, nbc) ==
  LET link == m.link_memb[l] IN
  LET is_shared_link == IF "SHARED" \in link.link_options THEN 1 ELSE 0
  IN IF "TX" \in link.link_options
     THEN Bind(IF link.link_type \in {"ADVERTISING", "ADVERTISING_ONLY"}
                    THEN [p |-> tsch_queue_get_packet_for_nbr(m, neb, 0), n |-> neb]
                    ELSE [p |-> NULL, n |-> NULL], LAMBDA eb :
          IF link.link_type # "ADVERTISING_ONLY" /\ eb.p = NULL
             THEN Bind(tsch_queue_get_nbr(m, link.addr), LAMBDA n :
                  Bind(tsch_queue_get_packet_for_nbr(m, n, is_shared_link), LAMBDA p :
                  IF p = NULL /\ n = nbc
                     THEN tsch_queue_get_unicast_packet_for_any(m, n, is_shared_link)
                     ELSE [p |-> p, n |-> n]))
             ELSE eb)
     ELSE [p |-> NULL, n |-> NULL]

\* ------------------------------------------------- tsch.c: channel hopping
hopping_sequence_list ==
  <<26, 15, 25, 20, 16, 19, 14, 24, 18, 17, 17, 11, 21, 23, 12, 22, 13>>
TSCH_N_CHANNELS == 16
\* hopping_sequence_length.val, as ASN_DIVISOR_INIT leaves it in tsch_init.
hopping_sequence_length == TSCH_N_CHANNELS

\* The index that tsch_calculate_channel reads.
ChannelIndexNoWrap(asn, channel_offset) ==
  U16(U16(ASN_MOD(asn, hopping_sequence_length)) + channel_offset)

ChannelIndex(asn, channel_offset) ==
  Bind(U16(ASN_MOD(asn, hopping_sequence_length)), LAMBDA index_of_0 :
  U16((index_of_0 + channel_offset) % hopping_sequence_length))

\* A read past the end of the array yields no entry of the list (-1).
tsch_calculate_channel(asn, channel_offset) ==
  Bind(ChannelIndex(asn, channel_offset), LAMBDA index_of_offset :
  IF index_of_offset < Len(hopping_sequence_list)
  THEN hopping_sequence_list[index_of_offset + 1]
  ELSE -1)

\* ------------------------------------------------- tsch.c: the send path
\* send_packet up to add_packet's write of the slot: a frame for linkaddr_null
\* goes to the broadcast queue; a failure is reported through the callback.
SendAddr(addr) == IF addr = tsch_eb_address THEN tsch_broadcast_address ELSE addr

send_packet_fill(m, addr, sent, payload, qb_ok) ==
  Bind(tsch_queue_packet_count(m, SendAddr(addr)), LAMBDA c :
  Bind(tsch_queue_add_packet_fill(c.m, SendAddr(addr), sent, payload, qb_ok), LAMBDA f :
  IF f.p # NULL THEN f
     ELSE [f EXCEPT !.m = mac_call_sent_callback(f.m, sent, MAC_TX_ERR, 1)]))

\* ---------------------------------------- tsch.c: after a transmission
\* update_neighbor_state with a reset of the backoff on shared links only.
update_neighbor_state_shared_reset(m, n, p, is_shared_link, status) ==
  LET is_unicast == m.neighbor_memb[n].is_broadcast = 0 IN
  IF status = MAC_TX_OK
  THEN Bind(tsch_queue_remove_packet_from_queue(m, n), LAMBDA d :
       [m |-> IF is_unicast /\ is_shared_link # 0
              THEN [d.m EXCEPT !.neighbor_memb[n] = tsch_queue_backoff_reset(@)]
              ELSE d.m,
        r |-> 0])
  ELSE Bind(m.packet_memb[p].transmissions >= MaxRetries + 1, LAMBDA drop :
       Bind(IF drop THEN tsch_queue_remove_packet_from_queue(m, n).m ELSE m, LAMBDA m1 :
       [m |-> IF is_unicast /\ is_shared_link # 0
                 THEN tsch_queue_backoff_inc(m1, n)
                 ELSE m1,
           r |-> IF drop THEN 0 ELSE 1]))

\* update_neighbor_state: r = in_queue.
update_neighbor_state(m, n, p, is_shared_link, status) ==
  LET is_unicast == m.neighbor_memb[n].is_broadcast = 0 IN
  IF status = MAC_TX_OK
  THEN Bind(tsch_queue_remove_packet_from_queue(m, n), LAMBDA d :
       [m |-> IF is_unicast /\ (is_shared_link # 0 \/ tsch_queue_is_empty(d.m, n))
              THEN [d.m EXCEPT !.neighbor_memb[n] = tsch_queue_backoff_reset(@)]
              ELSE d.m,
        r |-> 0])
  ELSE Bind(m.packet_memb[p].transmissions >= MaxRetries + 1, LAMBDA drop :
       Bind(IF drop THEN tsch_queue_remove_packet_from_queue(m, n).m ELSE m, LAMBDA m1 :
       [m |-> IF is_unicast /\ is_shared_link # 0
                 THEN tsch_queue_backoff_inc(m1, n)
                 ELSE m1,
           r |-> IF drop THEN 0 ELSE 1]))

\* The dequeued ring takes DequeuedSlots packets: DEQUEUED_ARRAY_SIZE is at
\* least QUEUEBUF_NUM and the ring index keeps one slot free (the ring index
\* library is not part of the sources).
DequeuedSlots == MaxPackets - 1
\* ringbufindex_peek_put(&dequeued_ringbuf) = -1.
DequeuedFull(m) == Len(m.dequeued_array) >= DequeuedSlots

tsch_tx_link_done_handed_over(m, n, p, is_shared_link, status) ==
  Bind([m EXCEPT !.mac_tx_status = status,
                      !.packet_memb[p].transmissions = U8(@ + 1),
                      !.packet_memb[p].ret = status], LAMBDA m1 :
  Bind(update_neighbor_state(m1, n, p, is_shared_link, status), LAMBDA u :
  [u.m EXCEPT !.dequeued_array = Append(@, p)]))

\* The end of tsch_tx_link: the attempt is counted, the neighbor state is
\* updated, a packet that left the queue is handed to the pending-events
\* process through dequeued_array.
tsch_tx_link_done(m, n, p, is_shared_link, status) ==
  Bind([m EXCEPT !.mac_tx_status = status,
                      !.packet_memb[p].transmissions = U8(@ + 1),
                      !.packet_memb[p].ret = status], LAMBDA m1 :
  Bind(update_neighbor_state(m1, n, p, is_shared_link, status), LAMBDA u :
  IF u.r = 0
     THEN [u.m EXCEPT !.dequeued_array = Append(@, p)]
     ELSE u.m))

RECURSIVE tsch_tx_process_pending(_)
tsch_tx_process_pending(m) ==
  IF m.dequeued_array = <<>> THEN m
  ELSE Bind(Head(m.dequeued_array), LAMBDA p :
       Bind(mac_call_sent_callback(m, m.packet_memb[p].sent,
                                        m.packet_memb[p].ret,
                                        m.packet_memb[p].transmissions), LAMBDA m1 :
       Bind(tsch_queue_free_unused_neighbors(tsch_queue_free_packet(m1, p)), LAMBDA m2 :
       tsch_tx_process_pending([m2 EXCEPT !.dequeued_array = Tail(@)]))))

\* tsch_reset: pending callbacks are delivered, unused neighbors freed, the
\* time source dropped, the globals cleared.
tsch_reset(m) ==
  Bind(tsch_queue_free_unused_neighbors(tsch_tx_process_pending(m)), LAMBDA m1 :
  Bind(tsch_queue_update_time_source(m1, -1).m, LAMBDA m2 :
  [m2 EXCEPT !.tsch_join_priority = 255, !.current_asn = 0,
             !.current_link = NULL]))

\* ------------------------------------------------ tsch-queue.c: the self test
REPEAT == 3
TestLen == 51
\* node_addr[0..2] of the test: the EB address, the broadcast address, 02:02:..
node_addr == <<tsch_eb_address, tsch_broadcast_address, 2>>

\* The first loop: n_arr[b] = tsch_queue_add_nbr(&node_addr[b]).
RECURSIVE TestAddNbrs(_, _, _, _)
TestAddNbrs(m, b, num_nbr, n_arr) ==
  IF b > num_nbr THEN [m |-> m, n_arr |-> n_arr]
  ELSE Bind(tsch_queue_add_nbr(m, node_addr[b]), LAMBDA a :
       TestAddNbrs(a.m, b + 1, num_nbr, Append(n_arr, a.r)))

\* Up to REPEAT frames of TestLen bytes are enqueued: r = q, the number added.
RECURSIVE TestAddPackets(_, _, _, _)
TestAddPackets(m, addr, q, qb_ok) ==
  IF q = REPEAT THEN [m |-> m, r |-> q]
  ELSE Bind(tsch_queue_add_packet(m, addr, NULL, TestLen, qb_ok), LAMBDA a :
       IF a.r = 0 THEN [m |-> a.m, r |-> q]
       ELSE TestAddPackets(a.m, addr, q + 1, qb_ok))

\* q times: the head is read and, when it is a frame of TestLen bytes, removed.
\* A null head is dereferenced (r = TRUE tells that this happened); nothing is
\* written through it.
RECURSIVE TestGetRemove(_, _, _, _)
TestGetRemove(m, n, k, derefNull) ==
  IF k = 0 THEN [m |-> m, r |-> derefNull]
  ELSE Bind(tsch_queue_get_packet_for_nbr(m, n, 0), LAMBDA current_packet :
       IF current_packet = NULL
       THEN TestGetRemove(m, n, k - 1, TRUE)
       ELSE IF m.packet_memb[current_packet].qb = TestLen
       THEN TestGetRemove(tsch_queue_remove_packet_from_queue(m, n).m, n, k - 1, derefNull)
       ELSE TestGetRemove(m, n, k - 1, derefNull))

\* The second loop, for neighbor b and those after it.
RECURSIVE TestNbrs(_, _, _, _, _, _)
TestNbrs(m, b, num_nbr, n_arr, qb_ok, derefNull) ==
  IF b > num_nbr THEN [m |-> m, r |-> derefNull]
  ELSE Bind(n_arr[b], LAMBDA n :
       Bind(TestAddPackets(m, node_addr[b], 0, qb_ok), LAMBDA a :
       Bind(TestGetRemove(a.m, n, a.r, derefNull), LAMBDA g :
       TestNbrs(tsch_queue_remove_nbr(g.m, n), b + 1, num_nbr, n_arr, qb_ok, g.r))))

\* tsch_queue_test(num_nbr), num_nbr <= 3: the memory it leaves and whether it
\* dereferenced a null packet on the way.
tsch_queue_test(m, num_nbr, qb_ok) ==
  Bind(TestAddNbrs(m, 1, num_nbr, <<>>), LAMBDA a :
  TestNbrs(a.m, 1, num_nbr, a.n_arr, qb_ok, FALSE))

\* ---------------------------------------------------------------- tsch_init
\* tsch_init: tsch_reset on empty state, then tsch_queue_init adds the two
\* virtual neighbors and tsch_schedule_init leaves the schedule empty.
EmptyMem(seed) ==
  [slotframe_list |-> <<>>,
   link_memb |-> [l \in 1 .. MaxLinks |-> FreeLink],
   neighbor_list |-> <<>>,
   neighbor_memb |-> [n \in 1 .. MaxNbrs |-> FreeNbr],
   packet_memb |-> [p \in 1 .. MaxPackets |-> FreePacket],
   tsch_locked |-> 0, current_link |-> NULL,
   tsch_random_seed |-> seed, draws |-> 0, sent_cb |-> NoCallback,
   dequeued_array |-> <<>>, current_asn |-> 0,
   current_channel |-> U8(-1), drift_correction |-> 0, last_sync_asn |-> 0,
   tsch_join_priority |-> 255, current_link_start |-> 0,
   mac_tx_status |-> MAC_TX_OK, input_array |-> <<>>, input_queue_drop |-> 0]

tsch_queue_init(m) ==
  Bind(tsch_queue_add_nbr(m, tsch_eb_address), LAMBDA e :
  Bind(tsch_queue_add_nbr(e.m, tsch_broadcast_address), LAMBDA b :
  [m |-> b.m, n_eb |-> e.r, n_broadcast |-> b.r]))

\* linkaddr_node_addr folded into the seed: the node addresses of the model.
Seeds == {[hi |-> 0, lo |-> 1], [hi |-> 0, lo |-> 2]}

Idle == [op |-> "none", pc |-> "idle", r |-> 0]

InitSeed(seed) ==
    \E q \in {tsch_queue_init(EmptyMem(seed))} :
    /\ slotframe_list = q.m.slotframe_list
    /\ link_memb = q.m.link_memb
    /\ neighbor_list = q.m.neighbor_list
    /\ neighbor_memb = q.m.neighbor_memb
    /\ packet_memb = q.m.packet_memb
    /\ tsch_locked = q.m.tsch_locked
    /\ current_link = q.m.current_link
    /\ tsch_random_seed = q.m.tsch_random_seed
    /\ draws = q.m.draws
    /\ sent_cb = q.m.sent_cb
    /\ dequeued_array = q.m.dequeued_array
    /\ current_asn = q.m.current_asn
    /\ current_channel = q.m.current_channel
    /\ drift_correction = q.m.drift_correction
    /\ last_sync_asn = q.m.last_sync_asn
    /\ tsch_join_priority = q.m.tsch_join_priority
    /\ current_link_start = q.m.current_link_start
    /\ mac_tx_status = q.m.mac_tx_status
    /\ input_array = q.m.input_array
    /\ input_queue_drop = q.m.input_queue_drop
    /\ n_eb = q.n_eb
    /\ n_broadcast = q.n_broadcast
    /\ tsch_lock_requested = 0
    /\ tsch_in_link_operation = 0
    /\ associated = 0
    /\ task = Idle
    /\ isr = Idle

Init == InitSeed([hi |-> 0, lo |-> 1]) /\ tsch_is_coordinator = 0

\* ================================================================ actions
\* Task level: one call of the MAC's interface runs at a time; task tells
\* which call returned last, and with what.  A call that never returns leaves
\* pc = "spin".
\* A run is followed until a link counter has left the range 0..MaxLinks.
CountersInRange ==
  \A n \in 1 .. MaxNbrs : /\ neighbor_memb[n].tx_links_count <= MaxLinks
                          /\ neighbor_memb[n].dedicated_tx_links_count <= MaxLinks
TaskReady == task.pc = "idle" /\ CountersInRange
Return(op, r) == task' = [op |-> op, pc |-> "idle", r |-> r]
Spin(op) == task' = [op |-> op, pc |-> "spin", r |-> 0]

SlotframePtrs == 1 .. Len(slotframe_list)
InstalledLinks == {l \in 1 .. MaxLinks : link_memb[l].used}
ListedNbrs == {neighbor_list[i] : i \in 1 .. Len(neighbor_list)}
Timeslots == 0 .. MaxTimeslot
LinkAddrs == UnicastAddrs

AddSlotframe(handle, size) ==
  /\ TaskReady
  /\ \E a \in {tsch_schedule_add_slotframe(Mem, handle, size)} :
     SetMem(a.m) /\ Return("add_slotframe", a.r)
  /\ UNCHANGED <<tsch_is_coordinator, n_eb, n_broadcast, tsch_lock_requested,
                 tsch_in_link_operation,
                 associated, isr>>

\* remove_slotframe loops on remove_link until the slotframe has no link; with
\* the lock held remove_link removes nothing and the loop does not end.
RemoveSlotframe(sf) ==
  /\ TaskReady
  /\ IF tsch_locked = 1 /\ slotframe_list[sf].links_list # <<>>
     THEN Spin("remove_slotframe") /\ SetMem(Mem)
     ELSE \E a \in {tsch_schedule_remove_slotframe(Mem, sf)} :
          SetMem(a.m) /\ Return("remove_slotframe", a.r)
  /\ UNCHANGED <<tsch_is_coordinator, n_eb, n_broadcast, tsch_lock_requested,
                 tsch_in_link_operation,
                 associated, isr>>

AddLink(sf, link_options, link_type, address, timeslot) ==
  /\ TaskReady
  /\ \E a \in {tsch_schedule_add_link(Mem, sf, link_options, link_type, address,
                                     timeslot, 0)} :
     SetMem(a.m)
        /\ task' = [op |-> "add_link", pc |-> "idle", r |-> a.r,
                    replaced |-> AddLinkReplace(Mem, sf, timeslot).r]
  /\ UNCHANGED <<tsch_is_coordinator, n_eb, n_broadcast, tsch_lock_requested,
                 tsch_in_link_operation,
                 associated, isr>>

RemoveLink(sf, l) ==
  /\ TaskReady
  /\ \E a \in {tsch_schedule_remove_link(Mem, sf, l)} :
     SetMem(a.m) /\ Return("remove_link", a.r)
  /\ UNCHANGED <<tsch_is_coordinator, n_eb, n_broadcast, tsch_lock_requested,
                 tsch_in_link_operation,
                 associated, isr>>

RemoveLinkFromTimeslot(sf, timeslot) ==
  /\ TaskReady
  /\ \E a \in {tsch_schedule_remove_link_from_timeslot(Mem, sf, timeslot)} :
     SetMem(a.m) /\ Return("remove_link_from_timeslot", a.r)
  /\ UNCHANGED <<tsch_is_coordinator, n_eb, n_broadcast, tsch_lock_requested,
                 tsch_in_link_operation,
                 associated, isr>>

GetLinkFromAsn(asn) ==
  /\ TaskReady
  /\ SetMem(Mem)
  /\ Return("get_link_from_asn", tsch_schedule_get_link_from_asn(Mem, asn))
  /\ UNCHANGED <<tsch_is_coordinator, n_eb, n_broadcast, tsch_lock_requested,
                 tsch_in_link_operation,
                 associated, isr>>

AddNbr(addr) ==
  /\ TaskReady
  /\ \E a \in {tsch_queue_add_nbr(Mem, addr)} :
     SetMem(a.m) /\ Return("add_nbr", a.r)
  /\ UNCHANGED <<tsch_is_coordinator, n_eb, n_broadcast, tsch_lock_requested,
                 tsch_in_link_operation,
                 associated, isr>>

FreeUnusedNeighbors ==
  /\ TaskReady
  /\ SetMem(tsch_queue_free_unused_neighbors(Mem))
  /\ Return("free_unused_neighbors", 0)
  /\ UNCHANGED <<tsch_is_coordinator, n_eb, n_broadcast, tsch_lock_requested,
                 tsch_in_link_operation,
                 associated, isr>>

\* The schedule and the neighbor table under the calls of the upper layers.
Next ==
  \/ \E s \in Slotframes : AddSlotframe(s[1], s[2])
  \/ \E sf \in SlotframePtrs : RemoveSlotframe(sf)
  \/ \E sf \in SlotframePtrs, o \in LinkOptionSets, a \in LinkAddrs, t \in Timeslots :
       AddLink(sf, o, "NORMAL", a, t)
  \/ \E sf \in SlotframePtrs, l \in 1 .. MaxLinks :
       l \in {slotframe_list[sf].links_list[i] :
                i \in 1 .. Len(slotframe_list[sf].links_list)} /\ RemoveLink(sf, l)
  \/ \E sf \in SlotframePtrs, t \in Timeslots : RemoveLinkFromTimeslot(sf, t)
  \/ \E asn \in 0 .. MaxAsn : GetLinkFromAsn(asn)
  \/ \E a \in UnicastAddrs : AddNbr(a)
  \/ FreeUnusedNeighbors

Spec == Init /\ [][Next]_vars

\* The neighbor pool under the schedule: TX links to one address more than the
\* pool has room for beside the two virtual neighbors.
PoolNext ==
  \/ AddSlotframe(0, 2)
  \/ \E sf \in SlotframePtrs, o \in {{"TX"}, {"TX", "SHARED"}},
        a \in 1 .. MaxNbrs - 1, t \in Timeslots :
       AddLink(sf, o, "NORMAL", a, t)
  \/ \E sf \in SlotframePtrs, l \in 1 .. MaxLinks :
       l \in {slotframe_list[sf].links_list[i] :
                i \in 1 .. Len(slotframe_list[sf].links_list)} /\ RemoveLink(sf, l)
  \/ \E a \in UnicastAddrs : AddNbr(a)
  \/ FreeUnusedNeighbors

PoolSpec == Init /\ [][PoolNext]_vars

\* ------------------------------------------ the send path and the TX slots
\* While a slot operation is in progress a call that has to take the lock
\* waits in tsch_get_lock for its end; the calls below that run during a slot
\* are those of the send path that take no lock.
NoSlot == tsch_in_link_operation = 0
NbrOf(addr) == tsch_queue_get_nbr([Mem EXCEPT !.tsch_locked = 0], addr)

\* send_packet, first part: up to the write of the slot.  On failure the call
\* returns after the callback.
SendPacketFill(addr, sent, payload, qb_ok) ==
  /\ TaskReady
  /\ NoSlot \/ NbrOf(SendAddr(addr)) # NULL
  /\ \E f \in {send_packet_fill(Mem, addr, sent, payload, qb_ok)} :
     /\ SetMem(f.m)
     /\ task' = IF f.p # NULL
                THEN [op |-> "send_packet", pc |-> "put", r |-> f.n, payload |-> payload]
                ELSE [op |-> "send_packet", pc |-> "idle", r |-> 0]
  /\ UNCHANGED <<tsch_is_coordinator, n_eb, n_broadcast, tsch_lock_requested,
                 tsch_in_link_operation,
                 associated, isr>>

\* send_packet, second part: ringbufindex_put publishes the packet.
SendPacketPut ==
  /\ task.pc = "put"
  /\ SetMem(tsch_queue_add_packet_put(Mem, task.r))
  /\ task' = [op |-> "send_packet", pc |-> "idle", r |-> 1]
  /\ UNCHANGED <<tsch_is_coordinator, n_eb, n_broadcast, tsch_lock_requested,
                 tsch_in_link_operation,
                 associated, isr>>

\* The pending-events process delivers the callbacks of the dequeued packets.
TxProcessPending ==
  /\ TaskReady /\ NoSlot
  /\ SetMem(tsch_tx_process_pending(Mem))
  /\ Return("tx_process_pending", 0)
  /\ UNCHANGED <<tsch_is_coordinator, n_eb, n_broadcast, tsch_lock_requested,
                 tsch_in_link_operation,
                 associated, isr>>

\* After a slot on a shared TX link the backoff windows of the link's
\* destination are updated.
SlotEndBackoff(m, l) ==
  IF {"TX", "SHARED"} \subseteq m.link_memb[l].link_options
  THEN tsch_queue_update_all_backoff_windows(m, m.link_memb[l].addr)
  ELSE m

\* The start of a slot operation in tsch_link_operation, after the packet is
\* chosen: the radio hops to the channel of the link and the drift correction
\* of the last slot is forgotten.
LinkOperationBegin(m, l) ==
  [m EXCEPT !.current_channel = tsch_calculate_channel(m.current_asn,
                                                       m.link_memb[l].channel_offset),
            !.drift_correction = 0]

\* The slot routine runs a slot on the TX link l: the packet and the neighbor
\* are chosen; without a packet the slot is idle and ends at once.
IsrTxStart(l) ==
  /\ isr.pc = "idle" /\ NoSlot
  /\ "TX" \in link_memb[l].link_options
  /\ \E c \in {get_packet_and_neighbor_for_link(Mem, l, n_eb, n_broadcast)} :
     IF c.p # NULL
     THEN /\ isr' = [op |-> "tx", pc |-> "tx", n |-> c.n, p |-> c.p, l |-> l]
          /\ tsch_in_link_operation' = 1
          /\ SetMem(LinkOperationBegin(Mem, l))
     ELSE /\ isr' = Idle
          /\ UNCHANGED tsch_in_link_operation
          /\ SetMem(SlotEndBackoff(LinkOperationBegin(Mem, l), l))
  /\ UNCHANGED <<tsch_is_coordinator, n_eb, n_broadcast, tsch_lock_requested, associated, task>>

\* The TX slot ends with the status of the attempt.
IsrTxDone(status) ==
  /\ isr.pc = "tx"
  /\ draws < MaxDraws
  /\ \E is_shared_link \in {IF "SHARED" \in link_memb[isr.l].link_options THEN 1 ELSE 0} :
     \E m1 \in {IF DequeuedFull(Mem) THEN Mem
                 ELSE tsch_tx_link_done(Mem, isr.n, isr.p, is_shared_link, status)} :
     SetMem(SlotEndBackoff(m1, isr.l))
  /\ isr' = Idle
  /\ tsch_in_link_operation' = 0
  /\ UNCHANGED <<tsch_is_coordinator, n_eb, n_broadcast, tsch_lock_requested, associated, task>>

\* The queue of one neighbor between the send path (producer) and the slot
\* routine (consumer).
QueueNext ==
  \/ \E payload \in 1 .. MaxPayload, qb_ok \in BOOLEAN : SendPacketFill(1, 1, payload, qb_ok)
  \/ SendPacketPut
  \/ TxProcessPending
  \/ \E l \in InstalledLinks : IsrTxStart(l)
  \/ IsrTxDone(MAC_TX_OK)
  \/ NoSlot /\ AddSlotframe(0, 2)
  \/ \E sf \in SlotframePtrs : NoSlot /\ AddLink(sf, {"TX"}, "NORMAL", 1, 0)

QueueSpec == Init /\ [][QueueNext]_vars

FlushAll ==
  /\ TaskReady /\ NoSlot
  /\ SetMem(tsch_queue_flush_all(Mem))
  /\ Return("flush_all", 0)
  /\ UNCHANGED <<tsch_is_coordinator, n_eb, n_broadcast, tsch_lock_requested,
                 tsch_in_link_operation,
                 associated, isr>>

\* Timeslots given to add_link in the send runs: one more than there are links.
SendTimeslots == 0 .. MaxLinks

\* The send path alone, the queues emptied by flush_all only, beside a
\* schedule of RX links.
SendNext ==
  \/ \E payload \in 1 .. MaxPayload, qb_ok \in BOOLEAN :
       SendPacketFill(tsch_eb_address, 1, payload, qb_ok)
  \/ SendPacketPut
  \/ FlushAll
  \/ AddSlotframe(0, 2)
  \/ \E sf \in SlotframePtrs, t \in SendTimeslots : AddLink(sf, {"RX"}, "NORMAL", 1, t)

SendSpec == Init /\ [][SendNext]_vars

\* ---------------------------------------------------- backoff on shared links
InitSeeds == \E seed \in Seeds : InitSeed(seed) /\ tsch_is_coordinator = 0

\* Unicast frames over dedicated and shared TX links, acknowledged or not: the
\* CSMA backoff of the neighbors.  The frames stay allocated after their last
\* attempt (the pending-events process does not run).
BackoffNext ==
  \/ SendPacketFill(1, NULL, 1, TRUE)
  \/ SendPacketPut
  \/ \E l \in InstalledLinks : IsrTxStart(l)
  \/ \E status \in {MAC_TX_OK, MAC_TX_NOACK} : IsrTxDone(status)
  \/ NoSlot /\ AddSlotframe(0, 2)
  \/ \E sf \in SlotframePtrs, o \in {{"TX"}, {"TX", "SHARED"}},
        a \in {tsch_broadcast_address, 1} :
       NoSlot /\ AddLink(sf, o, "NORMAL", a, 0)

BackoffSpec == InitSeeds /\ [][BackoffNext]_vars

\* ------------------------------------------------ the neighbor table's users
\* tsch_queue_test: when it dereferenced a null packet the call returns all
\* the same or does not return.
QueueTest(num_nbr, qb_ok, crash) ==
  /\ TaskReady /\ NoSlot
  /\ \E t \in {tsch_queue_test(Mem, num_nbr, qb_ok)} :
     /\ SetMem(t.m)
     /\ IF t.r /\ crash THEN Spin("queue_test") ELSE Return("queue_test", 0)
  /\ UNCHANGED <<tsch_is_coordinator, n_eb, n_broadcast, tsch_lock_requested,
                 tsch_in_link_operation,
                 associated, isr>>

Reset ==
  /\ TaskReady /\ NoSlot
  /\ SetMem(tsch_reset(Mem))
  /\ Return("reset", 0)
  /\ UNCHANGED <<tsch_is_coordinator, n_eb, n_broadcast, tsch_lock_requested,
                 tsch_in_link_operation,
                 associated, isr>>

UpdateTimeSource(new_addr) ==
  /\ TaskReady /\ NoSlot
  /\ \E u \in {tsch_queue_update_time_source(Mem, new_addr)} :
     SetMem(u.m) /\ Return("update_time_source", u.r)
  /\ UNCHANGED <<tsch_is_coordinator, n_eb, n_broadcast, tsch_lock_requested,
                 tsch_in_link_operation,
                 associated, isr>>

\* The calls that add, free and flush neighbors.
NbrNext ==
  \/ \E num_nbr \in 1 .. Len(node_addr), crash \in BOOLEAN :
       QueueTest(num_nbr, TRUE, crash)
  \/ FreeUnusedNeighbors
  \/ FlushAll
  \/ Reset
  \/ \E a \in {1, -1} : UpdateTimeSource(a)
  \/ AddSlotframe(0, 2)
  \/ \E sf \in SlotframePtrs : AddLink(sf, {"TX"}, "NORMAL", 1, 0)
  \/ \E sf \in SlotframePtrs : RemoveLinkFromTimeslot(sf, 0)
  \/ SendPacketFill(1, 1, 1, TRUE)
  \/ SendPacketPut

NbrSpec == Init /\ [][NbrNext]_vars

\* ------------------------------------- tsch.c: the lock and the slot routine
\* The slot routine runs in the timer interrupt; a task-level call runs
\* between its segments.  A segment of the slot routine that does not yield
\* cannot be interleaved with task-level code.
IsrNotRunning == ~(isr.pc = "slot" /\ ~isr.yielded)
MemUnlocked == [Mem EXCEPT !.tsch_locked = 0]

\* The schedule calls made while slots run: links to the broadcast address,
\* whose neighbor exists from tsch_queue_init on.
SlotLinkOptions == {{"RX"}, {"TX"}}
SlotCalls ==
  {[op |-> "add_slotframe", handle |-> s[1], size |-> s[2]] : s \in Slotframes}
  \cup {[op |-> "add_link", handle |-> s[1], link_options |-> o, timeslot |-> t] :
          s \in Slotframes, o \in SlotLinkOptions, t \in Timeslots}
  \cup {[op |-> "remove_link", handle |-> s[1], timeslot |-> t] :
          s \in Slotframes, t \in Timeslots}

\* The part of a call before its tsch_get_lock: TRUE iff the call goes on to
\* take the lock.
CallPre(m, c) ==
  LET sf == tsch_schedule_get_slotframe_from_handle(m, c.handle) IN
  IF c.op = "add_slotframe" THEN sf = NULL
  ELSE IF c.op = "add_link" THEN sf # NULL
  ELSE sf # NULL /\ tsch_schedule_get_link_from_timeslot(m, sf, c.timeslot) # NULL

\* The call from its tsch_get_lock on, the lock being free.
CallBody(m, c) ==
  LET sf == tsch_schedule_get_slotframe_from_handle(m, c.handle) IN
  IF c.op = "add_slotframe" THEN tsch_schedule_add_slotframe(m, c.handle, c.size)
  ELSE IF c.op = "add_link"
  THEN tsch_schedule_add_link(m, sf, c.link_options, "NORMAL",
                              IF "address" \in DOMAIN c THEN c.address
                              ELSE tsch_broadcast_address, c.timeslot, 0)
  ELSE tsch_schedule_remove_link_from_timeslot(m, sf, c.timeslot)

\* tsch_get_lock, up to the busy wait: the request is raised when the lock is
\* free, otherwise the call fails.
TaskRequest(c) ==
  /\ TaskReady /\ IsrNotRunning
  /\ c.op = "add_link" =>
       LET sf == tsch_schedule_get_slotframe_from_handle(Mem, c.handle) IN
       tsch_schedule_get_link_from_timeslot(Mem, sf, c.timeslot) = NULL
  /\ IF CallPre(Mem, c) /\ tsch_locked = 0
     THEN /\ tsch_lock_requested' = 1
          /\ task' = [op |-> c.op, pc |-> "wait", r |-> 0, call |-> c]
     ELSE /\ Return(c.op, 0)
          /\ UNCHANGED tsch_lock_requested
  /\ SetMem(Mem)
  /\ UNCHANGED <<tsch_is_coordinator, n_eb, n_broadcast, tsch_in_link_operation, associated, isr>>

TaskAcquireInSlot ==
  /\ task.pc = "wait" /\ IsrNotRunning
  /\ IF tsch_locked = 0
     THEN /\ SetMem([Mem EXCEPT !.tsch_locked = 1])
          /\ tsch_lock_requested' = 0
          /\ task' = [task EXCEPT !.pc = "crit"]
     ELSE /\ SetMem(Mem)
          /\ UNCHANGED tsch_lock_requested
          /\ Return(task.op, 0)
  /\ UNCHANGED <<tsch_is_coordinator, n_eb, n_broadcast, tsch_in_link_operation, associated, isr>>

\* tsch_get_lock, from the end of the busy wait: the lock is taken and the
\* request withdrawn.
TaskAcquire ==
  /\ task.pc = "wait" /\ IsrNotRunning
  /\ tsch_in_link_operation = 0
  /\ IF tsch_locked = 0
     THEN /\ SetMem([Mem EXCEPT !.tsch_locked = 1])
          /\ tsch_lock_requested' = 0
          /\ task' = [task EXCEPT !.pc = "crit"]
     ELSE /\ SetMem(Mem)
          /\ UNCHANGED tsch_lock_requested
          /\ Return(task.op, 0)
  /\ UNCHANGED <<tsch_is_coordinator, n_eb, n_broadcast, tsch_in_link_operation, associated, isr>>

\* The critical section of the call and what follows it.
TaskCritical ==
  /\ task.pc = "crit" /\ task.op # "rx_eb" /\ IsrNotRunning
  /\ \E a \in {CallBody(MemUnlocked, task.call)} :
     SetMem(a.m) /\ Return(task.op, a.r)
  /\ UNCHANGED <<tsch_is_coordinator, n_eb, n_broadcast, tsch_lock_requested,
                 tsch_in_link_operation,
                 associated, isr>>

RECURSIVE SlotEpilogueKeepDrift(_, _)
SlotEpilogueKeepDrift(m, missed) ==
  Bind(IF m.current_link # NULL THEN SlotEndBackoff(m, m.current_link) ELSE m, LAMBDA m1 :
  Bind(tsch_schedule_get_next_active_link(m1, m1.current_asn, 0), LAMBDA a :
  Bind(IF a.link = NULL THEN 1 ELSE a.time_offset, LAMBDA timeslot_diff :
  Bind(timeslot_diff * TsSlotDuration + m1.drift_correction,
       LAMBDA tsch_time_until_next_active_link :
  Bind([m1 EXCEPT !.current_link = a.link,
                  !.current_asn = m1.current_asn + timeslot_diff,
                  !.current_link_start = @ + tsch_time_until_next_active_link],
       LAMBDA m2 :
  IF missed = 0 THEN [m2 EXCEPT !.drift_correction = 0]
     ELSE SlotEpilogueKeepDrift(m2, missed - 1))))))

\* The end of a slot in tsch_link_operation: the next link and the new ASN,
\* once more for every missed deadline.
RECURSIVE SlotEpilogue(_, _)
SlotEpilogue(m, missed) ==
  Bind(IF m.current_link # NULL THEN SlotEndBackoff(m, m.current_link) ELSE m, LAMBDA m1 :
  Bind(tsch_schedule_get_next_active_link(m1, m1.current_asn, 0), LAMBDA a :
  Bind(IF a.link = NULL THEN 1 ELSE a.time_offset, LAMBDA timeslot_diff :
  Bind(timeslot_diff * TsSlotDuration + m1.drift_correction,
       LAMBDA tsch_time_until_next_active_link :
  Bind([m1 EXCEPT !.current_link = a.link,
                  !.current_asn = m1.current_asn + timeslot_diff,
                  !.drift_correction = 0,
                  !.current_link_start = @ + tsch_time_until_next_active_link],
       LAMBDA m2 :
  IF missed = 0 THEN m2 ELSE SlotEpilogue(m2, missed - 1))))))

\* Between two slots; r tells what the last slot boundary saw: 1 a slot
\* operation, 2 a slot skipped without a link, 3 a slot skipped for a lock
\* request, 0 none yet.
SlotYield == [op |-> "slot", pc |-> "yield", r |-> 0]
SlotEnded == [op |-> "slot", pc |-> "ended", r |-> 0]

EpilogueStepAll(m, missed) ==
  /\ tsch_in_link_operation' = 0
  /\ IF ASN_DIFF(m.current_asn, m.last_sync_asn) > DesyncThresholdSlots
     THEN /\ associated' = 0
          /\ isr' = SlotEnded
          /\ SetMem(m)
     ELSE \E e \in {SlotEpilogue(m, missed)} :
          /\ e.current_asn <= MaxAsn
          /\ e.current_link_start <= (MaxAsn + 1) * TsSlotDuration
          /\ SetMem(e)
          /\ isr' = [SlotYield EXCEPT !.r = IF isr.pc = "slot" THEN 1
                                            ELSE IF m.current_link = NULL THEN 2 ELSE 3]
          /\ UNCHANGED associated

\* The slot is over: a node that has not synchronised for too long leaves the
\* network, any other node schedules its next slot.
EpilogueStep(m, missed) ==
  /\ tsch_in_link_operation' = 0
  /\ IF tsch_is_coordinator = 0
        /\ ASN_DIFF(m.current_asn, m.last_sync_asn) > DesyncThresholdSlots
     THEN /\ associated' = 0
          /\ isr' = SlotEnded
          /\ SetMem(m)
     ELSE \E e \in {SlotEpilogue(m, missed)} :
          /\ e.current_asn <= MaxAsn
          /\ e.current_link_start <= (MaxAsn + 1) * TsSlotDuration
          /\ SetMem(e)
          /\ isr' = [SlotYield EXCEPT !.r = IF isr.pc = "slot" THEN 1
                                            ELSE IF m.current_link = NULL THEN 2 ELSE 3]
          /\ UNCHANGED associated

\* tsch_process schedules the first slot: the loop is repeated for every missed
\* deadline; timeslot_diff is not initialised and not written while the lock
\* is held (prev is the value it happens to have).  With offset 0 after a miss
\* the loop does not end.
RECURSIVE FirstSlot(_, _, _)
FirstSlot(m, prev, missed) ==
  Bind(tsch_schedule_get_next_active_link(m, m.current_asn, prev), LAMBDA a :
  Bind([m EXCEPT !.current_link = a.link,
                 !.current_asn = m.current_asn + a.time_offset,
                 !.current_link_start = @ + a.time_offset * TsSlotDuration],
       LAMBDA m2 :
  IF missed = 0 THEN [m |-> m2, spin |-> FALSE]
     ELSE IF a.time_offset = 0 THEN [m |-> m2, spin |-> TRUE]
     ELSE FirstSlot(m2, prev, missed - 1)))

\* Time is counted from the start of the slot in which the node associated.
Associate(prev, missed) ==
  /\ TaskReady /\ associated = 0 /\ isr.pc = "idle"
  /\ \E f \in {FirstSlot([Mem EXCEPT !.last_sync_asn = Mem.current_asn,
                                     !.current_link_start = 0], prev, missed)} :
     /\ f.m.current_asn <= MaxAsn
     /\ SetMem(f.m)
     /\ IF f.spin
        THEN Spin("tsch_process") /\ UNCHANGED isr
        ELSE Return("tsch_process", 0) /\ isr' = SlotYield
  /\ associated' = 1
  /\ UNCHANGED <<tsch_is_coordinator, n_eb, n_broadcast, tsch_lock_requested, tsch_in_link_operation>>

TimerFireNoSkip(missed) ==
  /\ isr.pc = "yield" /\ associated = 1
  /\ IF current_link = NULL
     THEN EpilogueStep(Mem, missed)
     ELSE \E c \in {get_packet_and_neighbor_for_link(Mem, current_link, n_eb, n_broadcast)} :
          /\ tsch_in_link_operation' = 1
          /\ isr' = [op |-> "slot", pc |-> IF c.p # NULL THEN "txlink" ELSE "slot", r |-> 0,
                     l |-> current_link, n |-> c.n, p |-> c.p,
                     yielded |-> c.p = NULL /\ "RX" \in link_memb[current_link].link_options]
          /\ SetMem(LinkOperationBegin(Mem, current_link))
          /\ UNCHANGED associated
  /\ UNCHANGED <<tsch_is_coordinator, n_eb, n_broadcast, tsch_lock_requested, task>>

\* The timer fires: the slot is skipped without a link or with a pending lock
\* request, otherwise the slot operation starts: with a packet the slot
\* transmits, without one it listens on an RX link and is idle otherwise.
TimerFire(missed) ==
  /\ isr.pc = "yield" /\ associated = 1
  /\ IF current_link = NULL \/ tsch_lock_requested = 1
     THEN EpilogueStep(Mem, missed)
     ELSE \E c \in {get_packet_and_neighbor_for_link(Mem, current_link, n_eb, n_broadcast)} :
          /\ tsch_in_link_operation' = 1
          /\ isr' = [op |-> "slot", pc |-> IF c.p # NULL THEN "txlink" ELSE "slot", r |-> 0,
                     l |-> current_link, n |-> c.n, p |-> c.p,
                     yielded |-> c.p = NULL /\ "RX" \in link_memb[current_link].link_options]
          /\ SetMem(LinkOperationBegin(Mem, current_link))
          /\ UNCHANGED associated
  /\ UNCHANGED <<tsch_is_coordinator, n_eb, n_broadcast, tsch_lock_requested, task>>

\* A slot routine that would yield without clearing tsch_in_link_operation.
SlotEndInOperation(missed) ==
  /\ isr.pc = "slot"
  /\ IF tsch_is_coordinator = 0
        /\ ASN_DIFF(Mem.current_asn, Mem.last_sync_asn) > DesyncThresholdSlots
     THEN /\ associated' = 0
          /\ isr' = SlotEnded
          /\ SetMem(Mem)
     ELSE \E e \in {SlotEpilogue(Mem, missed)} :
          /\ e.current_asn <= MaxAsn
          /\ e.current_link_start <= (MaxAsn + 1) * TsSlotDuration
          /\ SetMem(e)
          /\ isr' = [SlotYield EXCEPT !.r = 1]
          /\ UNCHANGED associated
  /\ UNCHANGED <<tsch_is_coordinator, n_eb, n_broadcast, tsch_lock_requested,
                 tsch_in_link_operation, task>>

\* The slot operation ends.
SlotEnd(missed) ==
  /\ isr.pc = "slot"
  /\ EpilogueStep(Mem, missed)
  /\ UNCHANGED <<tsch_is_coordinator, n_eb, n_broadcast, tsch_lock_requested, task>>

\* tsch_process after the node has left the network.
Resync ==
  /\ TaskReady /\ associated = 0 /\ isr.pc = "ended"
  /\ SetMem(tsch_reset(Mem))
  /\ Return("tsch_reset", 0)
  /\ isr' = Idle
  /\ UNCHANGED <<tsch_is_coordinator, n_eb, n_broadcast, tsch_lock_requested,
                 tsch_in_link_operation,
                 associated>>

\* The schedule calls interleaved with the slot routine.
SlotNext ==
  \/ \E c \in SlotCalls : TaskRequest(c)
  \/ TaskAcquire
  \/ TaskCritical
  \/ \E prev \in 0 .. 1, missed \in 0 .. MaxMissed : Associate(prev, missed)
  \/ \E missed \in 0 .. MaxMissed : TimerFire(missed)
  \/ \E missed \in 0 .. MaxMissed : SlotEnd(missed)
  \/ Resync

SlotSpec == Init /\ [][SlotNext]_vars

\* --------------------------------------------------- the channel hops
\* hop_channel(&asn, offset), as the scan and every slot call it:
\* current_channel is set to -1, then to the channel computed.
HopChannel(asn, offset) ==
  /\ TaskReady
  /\ SetMem([Mem EXCEPT !.current_channel = tsch_calculate_channel(asn, offset)])
  /\ task' = [op |-> "hop_channel", pc |-> "idle", r |-> 0,
              asn |-> asn, offset |-> offset]
  /\ UNCHANGED <<tsch_is_coordinator, n_eb, n_broadcast, tsch_lock_requested,
                 tsch_in_link_operation,
                 associated, isr>>

ChannelNext ==
  \E asn \in 0 .. MaxHopAsn, offset \in 0 .. MaxChannelOffset : HopChannel(asn, offset)

ChannelSpec == Init /\ [][ChannelNext]_vars

\* ------------------------------------------------ tsch.c: synchronisation
TRUNCATE_SYNC_IE_BOUND == TsLongGT \div 2

\* ACKs as the radio and tsch_packet_parse_sync_ack report them: tx tells
\* whether the radio sent the frame, ok whether a valid ACK came back, ie
\* whether it carried a sync IE, and drift the time correction of the IE.
Drifts == {-(TRUNCATE_SYNC_IE_BOUND + 1), 7, TRUNCATE_SYNC_IE_BOUND + 1}
Acks ==
  {[tx |-> FALSE, ok |-> FALSE, ie |-> FALSE, drift |-> 0],
   [tx |-> TRUE, ok |-> FALSE, ie |-> FALSE, drift |-> 0]}
  \cup {[tx |-> TRUE, ok |-> TRUE, ie |-> ie, drift |-> d] : ie \in BOOLEAN, d \in Drifts}

TxAckNoFloor(m, n, ack) ==
  IF ~ack.tx THEN [m |-> m, r |-> MAC_TX_ERR]
  ELSE IF m.neighbor_memb[n].is_broadcast = 1 THEN [m |-> m, r |-> MAC_TX_OK]
  ELSE IF ~ack.ok THEN [m |-> m, r |-> MAC_TX_NOACK]
  ELSE IF m.neighbor_memb[n].is_time_source = 1 /\ ack.ie
  THEN [m |-> [m EXCEPT !.drift_correction =
                          IF ack.drift > TRUNCATE_SYNC_IE_BOUND
                          THEN TRUNCATE_SYNC_IE_BOUND ELSE ack.drift,
                        !.last_sync_asn = m.current_asn],
        r |-> MAC_TX_OK]
  ELSE [m |-> m, r |-> MAC_TX_OK]

\* The end of the transmission in tsch_tx_link: a unicast frame waits for its
\* ACK, and the ACK of the time source corrects the drift of the node.
TxAck(m, n, ack) ==
  IF ~ack.tx THEN [m |-> m, r |-> MAC_TX_ERR]
  ELSE IF m.neighbor_memb[n].is_broadcast = 1 THEN [m |-> m, r |-> MAC_TX_OK]
  ELSE IF ~ack.ok THEN [m |-> m, r |-> MAC_TX_NOACK]
  ELSE IF m.neighbor_memb[n].is_time_source = 1 /\ ack.ie
  THEN [m |-> [m EXCEPT !.drift_correction =
                          IF ack.drift > TRUNCATE_SYNC_IE_BOUND
                          THEN TRUNCATE_SYNC_IE_BOUND
                          ELSE IF ack.drift < -TRUNCATE_SYNC_IE_BOUND
                          THEN -TRUNCATE_SYNC_IE_BOUND
                          ELSE ack.drift,
                        !.last_sync_asn = m.current_asn],
        r |-> MAC_TX_OK]
  ELSE [m |-> m, r |-> MAC_TX_OK]

\* The TX slot of the slot operation ends with the ACK.
TxLinkAck(ack) ==
  /\ isr.pc = "txlink"
  /\ draws < MaxDraws
  /\ \E is_shared_link \in {IF "SHARED" \in link_memb[isr.l].link_options THEN 1 ELSE 0} :
     \E a \in {TxAck(Mem, isr.n, ack)} :
     SetMem(IF DequeuedFull(Mem) THEN Mem
            ELSE tsch_tx_link_done(a.m, isr.n, isr.p, is_shared_link, a.r))
  /\ isr' = [op |-> "slot", pc |-> "slot", r |-> 0, l |-> isr.l, n |-> isr.n, p |-> isr.p,
             yielded |-> FALSE, ack |-> ack]
  /\ UNCHANGED <<tsch_is_coordinator, n_eb, n_broadcast, tsch_lock_requested,
                 tsch_in_link_operation, associated, task>>

\* The timer fires after the node has left the network: the slot loop ends.
TimerLeave ==
  /\ isr.pc = "yield" /\ associated = 0
  /\ isr' = SlotEnded
  /\ SetMem(Mem)
  /\ UNCHANGED <<tsch_is_coordinator, n_eb, n_broadcast, tsch_lock_requested,
                 tsch_in_link_operation, associated, task>>

\* EBs as tsch_parse_eb reports them: the sender, its ASN and its join
\* priority; NoEb stands for a scan without a frame or with a frame that is
\* not an EB.
ScanOffset == 5
NoEb == [parsed |-> FALSE, src |-> 0, asn |-> 0, jp |-> 0]
Ebs ==
  {NoEb} \cup {[parsed |-> TRUE, src |-> s, asn |-> 1, jp |-> j] :
                 s \in UnicastAddrs, j \in {0, TSCH_MAX_JOIN_PRIORITY}}

\* One round of the scan in tsch_associate (ASN_INIT at its start finds the
\* ASN at 0 already); r tells whether the node has associated.  Time is
\* counted from the start of the slot in which the node associated.
tsch_associate(m, is_coordinator, offset, eb) ==
  IF is_coordinator = 1
  THEN [m |-> [m EXCEPT !.tsch_join_priority = 0, !.current_link_start = 0], r |-> 1]
  ELSE Bind([m EXCEPT !.current_channel = tsch_calculate_channel(m.current_asn, offset)],
            LAMBDA m0 :
       Bind(IF eb.parsed
            THEN [m0 EXCEPT !.current_asn = eb.asn, !.tsch_join_priority = eb.jp]
            ELSE m0, LAMBDA m1 :
       IF eb.parsed /\ m1.tsch_join_priority < TSCH_MAX_JOIN_PRIORITY
       THEN Bind(tsch_queue_add_nbr(m1, eb.src), LAMBDA a :
            IF a.r # NULL
            THEN Bind(tsch_queue_update_time_source(a.m, eb.src).m, LAMBDA m2 :
                 [m |-> [m2 EXCEPT !.last_sync_asn = m2.current_asn,
                                   !.current_link_start = 0,
                                   !.tsch_join_priority = U8(@ + 1)],
                  r |-> 1])
            ELSE [m |-> a.m, r |-> 0])
       ELSE [m |-> m1, r |-> 0]))

\* tsch_process while the node is not associated: a round of the scan.
Scan(offset, eb) ==
  /\ TaskReady /\ associated = 0 /\ isr.pc = "idle"
  /\ \E a \in {tsch_associate(Mem, tsch_is_coordinator, offset, eb)} :
     /\ SetMem(a.m)
     /\ associated' = a.r
     /\ task' = [op |-> "tsch_associate", pc |-> IF a.r = 1 THEN "first" ELSE "idle",
                 r |-> a.r, eb |-> eb]
  /\ UNCHANGED <<tsch_is_coordinator, n_eb, n_broadcast, tsch_lock_requested,
                 tsch_in_link_operation, isr>>

\* tsch_process once the node is associated: the first slot.
ScheduleFirstSlot(prev, missed) ==
  /\ task.pc = "first"
  /\ \E f \in {FirstSlot(Mem, prev, missed)} :
     /\ f.m.current_asn <= MaxAsn
     /\ SetMem(f.m)
     /\ IF f.spin
        THEN Spin("tsch_process") /\ UNCHANGED isr
        ELSE Return("tsch_process", 0) /\ isr' = SlotYield
  /\ UNCHANGED <<tsch_is_coordinator, n_eb, n_broadcast, tsch_lock_requested,
                 tsch_in_link_operation, associated>>

\* tsch_rx_process_pending takes an EB from the input ring: src is its sender,
\* asn_diff the distance between the ASN of its reception and the ASN it
\* carries, jp its join priority.  The join priority of the time source
\* becomes the node's, and an unacceptable one makes the node leave.
RxEbJoinPriority(m, jp) ==
  IF jp < TSCH_MAX_JOIN_PRIORITY THEN [m EXCEPT !.tsch_join_priority = jp + 1] ELSE m

\* Up to the busy wait of tsch_get_lock.
RxEb(src, asn_diff, jp) ==
  /\ TaskReady /\ IsrNotRunning /\ associated = 1
  /\ \E n \in {tsch_queue_get_time_source(Mem)} :
     IF n # NULL /\ src = neighbor_memb[n].addr
     THEN IF asn_diff # 0
          THEN /\ tsch_lock_requested' = 1
               /\ task' = [op |-> "rx_eb", pc |-> "wait", r |-> 0,
                           call |-> [op |-> "rx_eb", src |-> src, asn_diff |-> asn_diff, jp |-> jp]]
               /\ SetMem(Mem)
               /\ UNCHANGED associated
          ELSE /\ SetMem(RxEbJoinPriority(Mem, jp))
               /\ associated' = IF jp < TSCH_MAX_JOIN_PRIORITY THEN 1 ELSE 0
               /\ task' = [op |-> "rx_eb", pc |-> "idle", r |-> 1,
                           call |-> [op |-> "rx_eb", src |-> src, asn_diff |-> asn_diff, jp |-> jp]]
               /\ UNCHANGED tsch_lock_requested
     ELSE /\ SetMem(Mem)
          /\ task' = [op |-> "rx_eb", pc |-> "idle", r |-> 0,
                      call |-> [op |-> "rx_eb", src |-> src, asn_diff |-> asn_diff, jp |-> jp]]
          /\ UNCHANGED <<tsch_lock_requested, associated>>
  /\ UNCHANGED <<tsch_is_coordinator, n_eb, n_broadcast, tsch_in_link_operation, isr>>

RxEbCorrectKeepLink ==
  /\ task.pc = "crit" /\ task.op = "rx_eb" /\ IsrNotRunning
  /\ \E asn \in {current_asn - task.call.asn_diff} :
     /\ asn \in 0 .. MaxAsn
     /\ SetMem(RxEbJoinPriority([Mem EXCEPT !.current_asn = asn,
                                            !.last_sync_asn = asn, !.tsch_locked = 0],
                                task.call.jp))
  /\ associated' = IF task.call.jp < TSCH_MAX_JOIN_PRIORITY THEN 1 ELSE 0
  /\ task' = [task EXCEPT !.pc = "idle", !.r = 1]
  /\ UNCHANGED <<tsch_is_coordinator, n_eb, n_broadcast, tsch_lock_requested,
                 tsch_in_link_operation, isr>>

\* With the lock: the next slot is called off and the ASN corrected.
RxEbCorrect ==
  /\ task.pc = "crit" /\ task.op = "rx_eb" /\ IsrNotRunning
  /\ \E asn \in {current_asn - task.call.asn_diff} :
     /\ asn \in 0 .. MaxAsn
     /\ SetMem(RxEbJoinPriority([Mem EXCEPT !.current_link = NULL, !.current_asn = asn,
                                            !.last_sync_asn = asn, !.tsch_locked = 0],
                                task.call.jp))
  /\ associated' = IF task.call.jp < TSCH_MAX_JOIN_PRIORITY THEN 1 ELSE 0
  /\ task' = [task EXCEPT !.pc = "idle", !.r = 1]
  /\ UNCHANGED <<tsch_is_coordinator, n_eb, n_broadcast, tsch_lock_requested,
                 tsch_in_link_operation, isr>>

\* The schedule of the node: a shared TX link at timeslot 0 and RX links.
SyncCalls(timeslots) ==
  {[op |-> "add_slotframe", handle |-> 0, size |-> Cardinality(timeslots)]}
  \cup {[op |-> "add_link", handle |-> 0, timeslot |-> t,
          link_options |-> IF t = 0 THEN {"TX", "SHARED"} ELSE {"RX"}] : t \in timeslots}

\* The EB of a coordinator with address 1 at ASN 0.
CoordinatorEb == [parsed |-> TRUE, src |-> 1, asn |-> 0, jp |-> 0]
NoPacket == \A p \in 1 .. MaxPackets : ~packet_memb[p].used

\* A round of tsch_send_eb_process: an associated node without an EB in its
\* queue enqueues one.
SendEb(qb_ok) ==
  /\ TaskReady /\ IsrNotRunning
  /\ IF associated = 1
     THEN \E c \in {tsch_queue_packet_count(Mem, tsch_eb_address)} :
          IF c.r = 0
          THEN \E a \in {tsch_queue_add_packet(c.m, tsch_eb_address, NULL, 1, qb_ok)} :
               SetMem(a.m) /\ Return("send_eb", IF a.r # NULL THEN 1 ELSE 0)
          ELSE SetMem(c.m) /\ Return("send_eb", 0)
     ELSE SetMem(Mem) /\ Return("send_eb", 0)
  /\ UNCHANGED <<tsch_is_coordinator, n_eb, n_broadcast, tsch_lock_requested,
                 tsch_in_link_operation, associated, isr>>

SyncInit == InitSeed([hi |-> 0, lo |-> 1]) /\ tsch_is_coordinator \in {0, 1}

\* The schedule is installed between two slots, one link after the other: a
\* slotframe with room for one link more than the pool holds.
SyncSchedule ==
  \/ NoSlot /\ AddSlotframe(0, MaxLinks + 1)
  \/ \E sf \in SlotframePtrs :
       NoSlot /\ AddLink(sf, {"RX"}, "NORMAL", tsch_broadcast_address,
                         Cardinality(InstalledLinks))

\* A node, coordinator or not, between scanning, the slots of its schedule and
\* the loss of synchronisation; its EB generator runs all the time.
SyncNext ==
  \/ SyncSchedule
  \/ \E eb \in Ebs : Scan(ScanOffset, eb)
  \/ \E prev \in 0 .. 1, missed \in 0 .. MaxMissed : ScheduleFirstSlot(prev, missed)
  \/ \E missed \in 0 .. MaxMissed : TimerFire(missed)
  \/ \E missed \in 0 .. MaxMissed : SlotEnd(missed)
  \/ SendEb(TRUE)
  \/ Resync

SyncSpec == SyncInit /\ [][SyncNext]_vars

\* The main task is scheduled again and again, and so is the timer of the
\* slot routine.
SyncFairSpec ==
  /\ SyncSpec
  /\ WF_vars(Resync)
  /\ WF_vars(\E missed \in 0 .. MaxMissed : TimerFire(missed))
  /\ WF_vars(\E missed \in 0 .. MaxMissed : SlotEnd(missed))

\* A node in the network of a coordinator, whose EBs and those of another
\* node it receives.
EbNext ==
  \/ SyncSchedule
  \/ Scan(ScanOffset, CoordinatorEb)
  \/ \E prev \in 0 .. 1, missed \in 0 .. MaxMissed : ScheduleFirstSlot(prev, missed)
  \/ \E missed \in 0 .. MaxMissed : TimerFire(missed)
  \/ \E missed \in 0 .. MaxMissed : SlotEnd(missed)
  \/ TimerLeave
  \/ \E src \in UnicastAddrs, asn_diff \in -1 .. 1,
        jp \in {0, TSCH_MAX_JOIN_PRIORITY, TSCH_MAX_JOIN_PRIORITY + 1} :
       RxEb(src, asn_diff, jp)
  \/ TaskAcquire
  \/ RxEbCorrect
  \/ Resync

EbSpec == Init /\ [][EbNext]_vars

\* A node that joins the network of a coordinator and sends it one packet at a
\* time on its shared link, while its schedule is edited.
DriftNext ==
  \/ \E c \in SyncCalls(0 .. 1) : TaskRequest(c)
  \/ TaskAcquire
  \/ TaskCritical
  \/ Scan(ScanOffset, CoordinatorEb)
  \/ \E prev \in 0 .. 1, missed \in 0 .. MaxMissed : ScheduleFirstSlot(prev, missed)
  \/ NoPacket /\ SendPacketFill(1, NULL, 1, TRUE)
  \/ SendPacketPut
  \/ TxProcessPending
  \/ \E missed \in 0 .. MaxMissed : TimerFire(missed)
  \/ \E ack \in Acks : TxLinkAck(ack)
  \/ \E missed \in 0 .. MaxMissed : SlotEnd(missed)
  \/ Resync

DriftSpec == Init /\ [][DriftNext]_vars

\* ------------------------------------------------ tsch.c: the TX slot in full
BitOr(a, b) == a + b - BitAnd(a, b)

\* The busy wait of the CCA: cca_status starts at 1 and every reading of
\* channel_clear() is or-ed into it.
CcaStatus(clear) == BitOr(1, clear)

\* What the framer and the radio answer in a TX slot: ready is the answer of
\* tsch_packet_update_eb, prepare that of NETSTACK_RADIO.prepare (TRUE is
\* success), clear the reading of channel_clear during the CCA window, ack
\* the transmission and its acknowledgement.
TxAnswers ==
  {[ready |-> TRUE, prepare |-> TRUE, clear |-> c, ack |-> a] :
     c \in 0 .. 1, a \in {k \in Acks : ~k.ie /\ k.drift \in {0, 7}}}
  \cup {[ready |-> r, prepare |-> ~r, clear |-> 1, ack |-> a] :
          r \in BOOLEAN, a \in {k \in Acks : k.ok /\ ~k.ie /\ k.drift = 7}}

\* tsch_tx_link recording FatalErr for the packet when the dequeued ring is
\* full.
tsch_tx_link_fatal_when_full(m, n, p, is_shared_link, is_eb, cca_enabled, rd) ==
  IF DequeuedFull(m)
  THEN [m |-> [m EXCEPT !.packet_memb[p].ret = MAC_TX_ERR_FATAL], r |-> {}]
  ELSE Bind(IF m.packet_memb[p].qb = NULL
            THEN [m |-> m, r |-> {}, status |-> MAC_TX_ERR_FATAL]
            ELSE IF is_eb /\ ~rd.ready
            THEN [m |-> m, r |-> {}, status |-> m.mac_tx_status]
            ELSE IF ~rd.prepare
            THEN [m |-> m, r |-> {"prepare"}, status |-> m.mac_tx_status]
            ELSE Bind(TxAck(m, n, rd.ack), LAMBDA a :
                 [m |-> a.m,
                  r |-> {"prepare", "transmit"}
                        \cup (IF cca_enabled = 1 THEN {"on", "channel_clear"} ELSE {}),
                  status |-> a.r]), LAMBDA s :
       [m |-> tsch_tx_link_done(s.m, n, p, is_shared_link, s.status), r |-> s.r])

\* tsch_tx_link for the packet p of the neighbor n: r is the set of the radio
\* driver's operations that were called.  The static mac_tx_status keeps the
\* value of the slot before where no branch assigns it.
tsch_tx_link(m, n, p, is_shared_link, is_eb, cca_enabled, rd) ==
  IF DequeuedFull(m) THEN [m |-> m, r |-> {}]
  ELSE Bind(IF m.packet_memb[p].qb = NULL
            THEN [m |-> m, r |-> {}, status |-> MAC_TX_ERR_FATAL]
            ELSE IF is_eb /\ ~rd.ready
            THEN [m |-> m, r |-> {}, status |-> m.mac_tx_status]
            ELSE IF ~rd.prepare
            THEN [m |-> m, r |-> {"prepare"}, status |-> m.mac_tx_status]
            ELSE IF cca_enabled = 1 /\ CcaStatus(rd.clear) = 0
            THEN [m |-> m, r |-> {"prepare", "on", "channel_clear"},
                  status |-> MAC_TX_COLLISION]
            ELSE Bind(TxAck(m, n, rd.ack), LAMBDA a :
                 [m |-> a.m,
                  r |-> {"prepare", "transmit"}
                        \cup (IF cca_enabled = 1 THEN {"on", "channel_clear"} ELSE {}),
                  status |-> a.r]), LAMBDA s :
       [m |-> tsch_tx_link_done(s.m, n, p, is_shared_link, s.status), r |-> s.r])

\* tsch_tx_link runs to its end with the answers rd of the framer and the
\* radio, in a build with or without CCA; isr tells what the slot was about,
\* which operations of the radio were called and whether the dequeued ring
\* was full.
TxLink(cca_enabled, rd) ==
  /\ isr.pc = "tx"
  /\ draws < MaxDraws
  /\ \E is_shared_link \in {IF "SHARED" \in link_memb[isr.l].link_options THEN 1 ELSE 0} :
     \E t \in {tsch_tx_link(Mem, isr.n, isr.p, is_shared_link,
                            IF isr.n = n_eb THEN TRUE ELSE FALSE, cca_enabled, rd)} :
     /\ SetMem(t.m)
     /\ isr' = [op |-> "tx", pc |-> "txdone", n |-> isr.n, p |-> isr.p, l |-> isr.l,
                radio |-> t.r, rd |-> rd, cca |-> cca_enabled,
                full |-> DequeuedFull(Mem)]
  /\ UNCHANGED <<tsch_is_coordinator, n_eb, n_broadcast, tsch_lock_requested,
                 tsch_in_link_operation, associated, task>>

\* The slot operation is over: the windows of the backoff are updated.
TxSlotEnd ==
  /\ isr.pc = "txdone"
  /\ SetMem(SlotEndBackoff(Mem, isr.l))
  /\ isr' = Idle
  /\ tsch_in_link_operation' = 0
  /\ UNCHANGED <<tsch_is_coordinator, n_eb, n_broadcast, tsch_lock_requested, associated, task>>

\* The packet pool has at least k free entries.
PacketsLeft(k) == Cardinality({p \in 1 .. MaxPackets : ~packet_memb[p].used}) >= k

\* The TX links of the runs: dedicated, shared and advertising.
TxLinkKinds ==
  {[o |-> {"TX"}, ty |-> "NORMAL"], [o |-> {"TX", "SHARED"}, ty |-> "NORMAL"],
   [o |-> {"TX"}, ty |-> "ADVERTISING"]}

\* EBs and unicast frames to one neighbor, one at a time, over dedicated,
\* shared and advertising TX links, the framer and the radio answering as
\* they like, the callbacks delivered by the pending-events process.  The
\* links are installed one after the other, one more than the pool holds.
TxNext ==
  \/ \E addr \in {1, tsch_eb_address} : NoPacket /\ SendPacketFill(addr, 1, 1, TRUE)
  \/ SendPacketPut
  \/ TxProcessPending
  \/ \E l \in InstalledLinks : IsrTxStart(l)
  \/ \E cca_enabled \in 0 .. 1, rd \in TxAnswers : TxLink(cca_enabled, rd)
  \/ TxSlotEnd
  \/ NoSlot /\ AddSlotframe(0, MaxLinks + 1)
  \/ \E sf \in SlotframePtrs, k \in TxLinkKinds :
       NoSlot /\ AddLink(sf, k.o, k.ty, 1, Cardinality(InstalledLinks))

TxSpec == Init /\ [][TxNext]_vars

\* The answers of a frame that went on the air, acknowledged or not.
AckAnswers == {rd \in TxAnswers : rd.ready /\ rd.prepare /\ rd.clear = 1 /\ rd.ack.tx}

\* Two unicast frames at a time to one neighbor over a shared and a dedicated
\* TX link, every frame transmitted and acknowledged or not, in a build
\* without CCA.
AckNext ==
  \/ PacketsLeft(2) /\ SendPacketFill(1, 1, 1, TRUE)
  \/ SendPacketPut
  \/ TxProcessPending
  \/ \E l \in InstalledLinks : IsrTxStart(l)
  \/ \E rd \in AckAnswers : TxLink(0, rd)
  \/ TxSlotEnd
  \/ NoSlot /\ AddSlotframe(0, MaxLinks + 1)
  \/ \E sf \in SlotframePtrs, o \in {{"TX"}, {"TX", "SHARED"}} :
       NoSlot /\ AddLink(sf, o, "NORMAL", 1, Cardinality(InstalledLinks))

AckSpec == Init /\ [][AckNext]_vars

\* The pending-events process does not run: the packets that left the queues
\* stay in the dequeued ring.
DequeuedNext ==
  \/ SendPacketFill(1, 1, 1, TRUE)
  \/ SendPacketPut
  \/ \E l \in InstalledLinks : IsrTxStart(l)
  \/ \E cca_enabled \in 0 .. 1, rd \in TxAnswers : TxLink(cca_enabled, rd)
  \/ TxSlotEnd
  \/ NoSlot /\ AddSlotframe(0, 2)
  \/ \E sf \in SlotframePtrs, o \in {{"TX"}, {"TX", "SHARED"}} :
       NoSlot /\ AddLink(sf, o, "NORMAL", 1, 0)

DequeuedSpec == Init /\ [][DequeuedNext]_vars

\* ------------------------------------------------ tsch.c: the RX slot in full
\* ringbufindex_peek_put(&input_ringbuf) = -1: the input ring holds
\* MaxIncoming frames.
InputFull(m) == Len(m.input_array) >= MaxIncoming

\* What the radio and the parser answer in an RX slot: activity tells whether
\* a frame was on the air during the guard time, pending whether the radio
\* holds a frame, valid and for_us what tsch_packet_extract_addresses finds,
\* ack_needed the frame type, src the sender, drift the estimated drift.
RxAnswers ==
  {[activity |-> FALSE, pending |-> FALSE, valid |-> FALSE, for_us |-> FALSE,
    ack_needed |-> FALSE, src |-> 1, drift |-> 0]}
  \cup {[activity |-> TRUE, pending |-> p, valid |-> v, for_us |-> u,
         ack_needed |-> k, src |-> s, drift |-> 3] :
          p, v, u, k \in BOOLEAN, s \in 1 .. 2}

tsch_rx_link_shift_now(m, rd) ==
  IF InputFull(m)
  THEN [m |-> [m EXCEPT !.input_queue_drop = @ + 1], r |-> {}]
  ELSE Bind(IF ~rd.activity \/ ~rd.pending
            THEN [m |-> m, r |-> {"on", "off"}]
            ELSE IF ~(rd.valid /\ rd.for_us)
            THEN [m |-> m, r |-> {"on", "off", "read"}]
            ELSE Bind(tsch_queue_get_nbr(m, rd.src), LAMBDA n :
                 [m |-> [(IF n # NULL /\ m.neighbor_memb[n].is_time_source = 1
                          THEN [m EXCEPT !.last_sync_asn = m.current_asn,
                                         !.current_link_start = @ - rd.drift]
                          ELSE m)
                         EXCEPT !.input_array = Append(@, rd.src)],
                  r |-> {"on", "off", "read"}
                        \cup (IF rd.ack_needed THEN {"prepare", "transmit"} ELSE {})]),
            LAMBDA s : [m |-> [s.m EXCEPT !.input_queue_drop = 0], r |-> s.r])

\* tsch_rx_link: r is the set of the radio driver's operations that were
\* called.
tsch_rx_link(m, rd) ==
  IF InputFull(m)
  THEN [m |-> [m EXCEPT !.input_queue_drop = @ + 1], r |-> {}]
  ELSE Bind(IF ~rd.activity \/ ~rd.pending
            THEN [m |-> m, r |-> {"on", "off"}]
            ELSE IF ~(rd.valid /\ rd.for_us)
            THEN [m |-> m, r |-> {"on", "off", "read"}]
            ELSE Bind(tsch_queue_get_nbr(m, rd.src), LAMBDA n :
                 [m |-> [(IF n # NULL /\ m.neighbor_memb[n].is_time_source = 1
                          THEN [m EXCEPT !.last_sync_asn = m.current_asn,
                                         !.drift_correction = -rd.drift]
                          ELSE m)
                         EXCEPT !.input_array = Append(@, rd.src)],
                  r |-> {"on", "off", "read"}
                        \cup (IF rd.ack_needed THEN {"prepare", "transmit"} ELSE {})]),
            LAMBDA s : [m |-> [s.m EXCEPT !.input_queue_drop = 0], r |-> s.r])

\* The slot routine runs a slot on the RX link l that has nothing to send.
IsrRxStart(l) ==
  /\ isr.pc = "idle" /\ NoSlot
  /\ "RX" \in link_memb[l].link_options
  /\ get_packet_and_neighbor_for_link(Mem, l, n_eb, n_broadcast).p = NULL
  /\ isr' = [op |-> "rx", pc |-> "rx", l |-> l]
  /\ tsch_in_link_operation' = 1
  /\ SetMem(LinkOperationBegin(Mem, l))
  /\ UNCHANGED <<tsch_is_coordinator, n_eb, n_broadcast, tsch_lock_requested, associated, task>>

\* tsch_rx_link runs to its end with the answers rd; isr tells which
\* operations of the radio were called and whether the input ring was full.
RxLink(rd) ==
  /\ isr.pc = "rx"
  /\ InputFull(Mem) => input_queue_drop < MaxDrops
  /\ \E t \in {tsch_rx_link(Mem, rd)} :
     /\ SetMem(t.m)
     /\ isr' = [op |-> "rx", pc |-> "rxdone", l |-> isr.l, radio |-> t.r, rd |-> rd,
                full |-> InputFull(Mem)]
  /\ UNCHANGED <<tsch_is_coordinator, n_eb, n_broadcast, tsch_lock_requested,
                 tsch_in_link_operation, associated, task>>

\* The slot operation is over.
RxSlotEnd ==
  /\ isr.pc = "rxdone"
  /\ SetMem(SlotEndBackoff(Mem, isr.l))
  /\ isr' = Idle
  /\ tsch_in_link_operation' = 0
  /\ UNCHANGED <<tsch_is_coordinator, n_eb, n_broadcast, tsch_lock_requested, associated, task>>

\* tsch_rx_process_pending with data frames in the input ring: every frame is
\* taken from the ring and passed to the upper layers.
RxProcessPending ==
  /\ TaskReady /\ NoSlot
  /\ input_array # <<>>
  /\ SetMem([Mem EXCEPT !.input_array = <<>>])
  /\ Return("rx_process_pending", 0)
  /\ UNCHANGED <<tsch_is_coordinator, n_eb, n_broadcast, tsch_lock_requested,
                 tsch_in_link_operation, associated, isr>>

\* RX slots beside the pending-events process and a time source that comes
\* and goes; the links are installed one after the other, one more than the
\* pool holds.
RxNext ==
  \/ \E l \in InstalledLinks : IsrRxStart(l)
  \/ \E rd \in RxAnswers : RxLink(rd)
  \/ RxSlotEnd
  \/ RxProcessPending
  \/ \E a \in {1, -1} : NoSlot /\ UpdateTimeSource(a)
  \/ NoSlot /\ AddSlotframe(0, MaxLinks + 1)
  \/ \E sf \in SlotframePtrs :
       NoSlot /\ AddLink(sf, {"RX"}, "NORMAL", 1, Cardinality(InstalledLinks))

RxSpec == Init /\ [][RxNext]_vars

\* --------------------------------------- tsch-queue.c: add_packet on its own
\* A call of tsch_queue_add_packet for the frame in the packet buffer; qb_ok
\* tells whether queuebuf_new_from_packetbuf finds a frame buffer.
AddPacket(addr, qb_ok) ==
  /\ TaskReady /\ NoSlot
  /\ \E a \in {tsch_queue_add_packet(Mem, addr, 1, 1, qb_ok)} :
     /\ SetMem(a.m)
     /\ Return("add_packet", a.r)
  /\ UNCHANGED <<tsch_is_coordinator, n_eb, n_broadcast, tsch_lock_requested,
                 tsch_in_link_operation, associated, isr>>

\* Calls of add_packet for the virtual neighbors and a unicast address until
\* the queues or the pool are full, unused neighbors freed, beside a schedule
\* of RX links installed one after the other, one more than the pool holds.
AddPacketNext ==
  \/ \E addr \in {tsch_eb_address, tsch_broadcast_address, 1}, qb_ok \in BOOLEAN :
       AddPacket(addr, qb_ok)
  \/ FreeUnusedNeighbors
  \/ AddSlotframe(0, MaxLinks + 1)
  \/ \E sf \in SlotframePtrs : AddLink(sf, {"RX"}, "NORMAL", 1, Cardinality(InstalledLinks))

AddPacketSpec == Init /\ [][AddPacketNext]_vars

\* --------------------------------- tsch-schedule.c: the next active link
\* A call of tsch_schedule_get_next_active_link for the ASN asn; the caller's
\* time_offset is 0 before the call.
GetNextActiveLink(asn) ==
  /\ TaskReady
  /\ SetMem(Mem)
  /\ \E a \in {tsch_schedule_get_next_active_link(Mem, asn, 0)} :
       task' = [op |-> "get_next_active_link", pc |-> "idle", r |-> a.link,
                time_offset |-> a.time_offset, asn |-> asn]
  /\ UNCHANGED <<tsch_is_coordinator, n_eb, n_broadcast, tsch_lock_requested,
                 tsch_in_link_operation, associated, isr>>

\* Schedules of RX links in two slotframes and lookups of the next active
\* link.
NextLinkNext ==
  \/ \E s \in Slotframes : AddSlotframe(s[1], s[2])
  \/ \E sf \in SlotframePtrs, t \in Timeslots : AddLink(sf, {"RX"}, "NORMAL", 1, t)
  \/ \E sf \in SlotframePtrs, t \in Timeslots : RemoveLinkFromTimeslot(sf, t)
  \/ \E asn \in 0 .. MaxAsn : GetNextActiveLink(asn)

NextLinkSpec == Init /\ [][NextLinkNext]_vars

\* ------------------------------- the broadcast slots that serve any neighbor
\* Frames for two unicast neighbors beside TX links to the broadcast address
\* and to the second neighbor: the slots on the broadcast links take the head
\* of a neighbor without TX link.  The frames stay allocated after their last
\* attempt.
AnyLinkKinds ==
  {[o |-> {"TX"}, a |-> tsch_broadcast_address],
   [o |-> {"TX", "SHARED"}, a |-> tsch_broadcast_address],
   [o |-> {"TX", "SHARED"}, a |-> 2]}

AnyNext ==
  \/ \E a \in UnicastAddrs : NoSlot /\ SendPacketFill(a, NULL, 1, TRUE)
  \/ SendPacketPut
  \/ \E l \in InstalledLinks : IsrTxStart(l)
  \/ \E status \in {MAC_TX_OK, MAC_TX_NOACK} : IsrTxDone(status)
  \/ NoSlot /\ AddSlotframe(0, MaxLinks + 1)
  \/ \E sf \in SlotframePtrs, k \in AnyLinkKinds :
       NoSlot /\ NoPacket /\ AddLink(sf, k.o, "NORMAL", k.a, Cardinality(InstalledLinks))

AnySpec == Init /\ [][AnyNext]_vars

\* ------------------------------------ the backoff windows under the slot loop
\* The schedule of the node: shared TX links to the coordinator and to the
\* broadcast address.
WindowCalls ==
  {[op |-> "add_slotframe", handle |-> 0, size |-> 2]}
  \cup {[op |-> "add_link", handle |-> 0, timeslot |-> t, link_options |-> {"TX", "SHARED"},
          address |-> a] : t \in 0 .. 1, a \in {1, tsch_broadcast_address}}

\* A node, coordinator or not, that sends frames that are not always
\* acknowledged to its neighbor 1, while its schedule is edited.
WindowNext ==
  \/ \E c \in WindowCalls : TaskRequest(c)
  \/ TaskAcquire
  \/ TaskCritical
  \/ Scan(ScanOffset, CoordinatorEb)
  \/ \E missed \in 0 .. MaxMissed : ScheduleFirstSlot(0, missed)
  \/ NoPacket /\ SendPacketFill(1, NULL, 1, TRUE)
  \/ SendPacketPut
  \/ TxProcessPending
  \/ \E missed \in 0 .. MaxMissed : TimerFire(missed)
  \/ \E ack \in {a \in Acks : a.tx /\ ~a.ie} : TxLinkAck(ack)
  \/ \E missed \in 0 .. MaxMissed : SlotEnd(missed)

WindowSpec == SyncInit /\ [][WindowNext]_vars

\* --------------------------------------- the branch of the slot operation
\* Links of every type, with the TX option, the RX option or both.
SelectLinkKinds ==
  {[o |-> o, ty |-> ty] : o \in {{"TX"}, {"RX"}, {"TX", "RX"}},
                          ty \in {"NORMAL", "ADVERTISING", "ADVERTISING_ONLY"}}

\* A node whose queues hold an EB, a broadcast frame or both while the slots
\* of its schedule run; the links go to the broadcast address.
SelectNext ==
  \/ NoSlot /\ AddSlotframe(0, MaxLinks + 1)
  \/ \E sf \in SlotframePtrs, k \in SelectLinkKinds :
       NoSlot /\ NoPacket /\ AddLink(sf, k.o, k.ty, tsch_broadcast_address,
                                     Cardinality(InstalledLinks))
  \/ Scan(ScanOffset, CoordinatorEb)
  \/ \E missed \in 0 .. MaxMissed : ScheduleFirstSlot(0, missed)
  \/ SendEb(TRUE)
  \/ PacketsLeft(2) /\ IsrNotRunning /\ SendPacketFill(tsch_broadcast_address, NULL, 1, TRUE)
  \/ SendPacketPut
  \/ \E missed \in 0 .. MaxMissed : TimerFire(missed)
  \/ TxLinkAck([tx |-> TRUE, ok |-> TRUE, ie |-> FALSE, drift |-> 0])
  \/ \E missed \in 0 .. MaxMissed : SlotEnd(missed)

SelectSpec == SyncInit /\ [][SelectNext]_vars

\* ------------------------------------------- the clock of the slot routine
\* What is heard in the RX slots of the slot loop: silence, a frame of the
\* time source and a frame of another sender.
ClockAnswers ==
  {rd \in RxAnswers : /\ rd.pending = rd.activity /\ rd.valid = rd.activity
                      /\ rd.for_us = rd.activity /\ ~rd.ack_needed}

\* tsch_rx_link in a slot of the slot loop that listens.
RxLinkSlot(rd) ==
  /\ isr.pc = "slot" /\ isr.yielded /\ "rd" \notin DOMAIN isr
  /\ InputFull(Mem) => input_queue_drop < MaxDrops
  /\ \E t \in {tsch_rx_link(Mem, rd)} : SetMem(t.m)
  /\ isr' = [op |-> "slot", pc |-> "slot", r |-> 0, l |-> isr.l, n |-> isr.n, p |-> isr.p,
             yielded |-> TRUE, rd |-> rd]
  /\ UNCHANGED <<tsch_is_coordinator, n_eb, n_broadcast, tsch_lock_requested,
                 tsch_in_link_operation, associated, task>>

\* A node that joins the network of a coordinator, sends it one packet at a
\* time on its shared link and listens on its RX link, while its schedule is
\* edited.
ClockNext ==
  \/ \E c \in SyncCalls(0 .. 1) : TaskRequest(c)
  \/ TaskAcquire
  \/ TaskCritical
  \/ Scan(ScanOffset, CoordinatorEb)
  \/ \E missed \in 0 .. MaxMissed : ScheduleFirstSlot(0, missed)
  \/ NoPacket /\ SendPacketFill(1, NULL, 1, TRUE)
  \/ SendPacketPut
  \/ TxProcessPending
  \/ RxProcessPending
  \/ \E missed \in 0 .. MaxMissed : TimerFire(missed)
  \/ \E ack \in Acks : TxLinkAck(ack)
  \/ \E rd \in ClockAnswers : RxLinkSlot(rd)
  \/ \E missed \in 0 .. MaxMissed : SlotEnd(missed)

ClockSpec == Init /\ [][ClockNext]_vars

\* ----------------------------------------------- the life of a packet
\* The pending-events process runs while the slot routine has yielded inside
\* tsch_tx_link; it finds no neighbor to remove, so it does not wait for the
\* lock.
TxProcessPendingInSlot ==
  /\ TaskReady /\ isr.pc = "tx"
  /\ dequeued_array # <<>>
  /\ \E m \in {tsch_tx_process_pending(Mem)} :
     /\ m.neighbor_list = neighbor_list
     /\ SetMem(m)
  /\ Return("tx_process_pending", 0)
  /\ UNCHANGED <<tsch_is_coordinator, n_eb, n_broadcast, tsch_lock_requested,
                 tsch_in_link_operation, associated, isr>>

\* Unicast frames to one neighbor, with a frame buffer or without one, sent
\* over dedicated TX links and acknowledged or not; the callbacks
\* are delivered between the slots and during them, and the queues flushed
\* between the slots.  The links are installed one after the other, one more
\* than the pool holds.
PacketNext ==
  \/ \E qb_ok \in BOOLEAN : SendPacketFill(1, 1, 1, qb_ok)
  \/ SendPacketPut
  \/ TxProcessPending
  \/ TxProcessPendingInSlot
  \/ FlushAll
  \/ \E l \in InstalledLinks : IsrTxStart(l)
  \/ \E status \in {MAC_TX_OK, MAC_TX_NOACK} : IsrTxDone(status)
  \/ NoSlot /\ AddSlotframe(0, MaxLinks + 1)
  \/ \E sf \in SlotframePtrs :
       NoSlot /\ AddLink(sf, {"TX"}, "NORMAL", 1, Cardinality(InstalledLinks))

PacketSpec == Init /\ [][PacketNext]_vars

\* --------------------------------------- the link of the coming slot
\* A node that has joined the network of a coordinator runs the slots of a
\* schedule that is edited all the time: slotframes and links are added and
\* removed, and the EBs of the coordinator correct the ASN.
InstalledCalls ==
  {c \in SlotCalls : /\ c.op = "add_link" => c.link_options = {"RX"}
                     /\ c.op # "add_slotframe" => c.timeslot = c.handle}
InstalledNext ==
  \/ \E c \in InstalledCalls : TaskRequest(c)
  \/ TaskAcquire
  \/ TaskCritical
  \/ \E sf \in SlotframePtrs : NoSlot /\ IsrNotRunning /\ RemoveSlotframe(sf)
  \/ Scan(ScanOffset, CoordinatorEb)
  \/ ScheduleFirstSlot(0, 0)
  \/ \E missed \in 0 .. MaxMissed : TimerFire(missed)
  \/ \E missed \in 0 .. MaxMissed : SlotEnd(missed)
  \/ \E asn_diff \in -1 .. 1 : RxEb(1, asn_diff, 0)
  \/ RxEbCorrect

InstalledSpec == Init /\ [][InstalledNext]_vars

\* ------------------------------------------------ waiting for the lock
\* tsch_get_lock (tsch.c 281-313) raises tsch_lock_requested and busy-waits
\* while tsch_in_link_operation is set; the slot routine (tsch.c 1068-1175)
\* clears the flag at the end of every iteration.  The schedule is one
\* slotframe of two timeslots with a dedicated TX link to the time source and
\* an RX link; the node hears no synchronising frame, so it leaves the network
\* DesyncThresholdSlots + 1 slots after it joined and joins again at ASN 0.
WaitCalls ==
  {[op |-> "add_slotframe", handle |-> 0, size |-> 2],
   [op |-> "add_link", handle |-> 0, timeslot |-> 0, link_options |-> {"TX"}, address |-> 1],
   [op |-> "add_link", handle |-> 0, timeslot |-> 1, link_options |-> {"RX"}]}
  \cup {[op |-> "remove_link", handle |-> 0, timeslot |-> t] : t \in 0 .. 1}

WaitAcks == {ack \in Acks : ~ack.ie}

WaitNext ==
  \/ \E c \in WaitCalls : TaskRequest(c)
  \/ TaskAcquire
  \/ TaskCritical
  \/ Scan(ScanOffset, CoordinatorEb)
  \/ \E missed \in 0 .. MaxMissed : ScheduleFirstSlot(0, missed)
  \/ NoPacket /\ SendPacketFill(1, NULL, 1, TRUE)
  \/ SendPacketPut
  \/ TxProcessPending
  \/ \E missed \in 0 .. MaxMissed : TimerFire(missed)
  \/ \E ack \in WaitAcks : TxLinkAck(ack)
  \/ \E missed \in 0 .. MaxMissed : SlotEnd(missed)
  \/ Resync

WaitSpec == Init /\ [][WaitNext]_vars

\* The timers of a started slot keep firing (the transmission ends, the slot
\* ends), and the caller of tsch_get_lock keeps polling the flag.
WaitFairSpec ==
  /\ WaitSpec
  /\ WF_vars(\E ack \in WaitAcks : TxLinkAck(ack))
  /\ WF_vars(\E missed \in 0 .. MaxMissed : SlotEnd(missed))
  /\ WF_vars(TaskAcquire)

\* ------------------------------------------------ the slot engine goes on
\* The slot routine on its own (tsch.c 1068-1175): the schedule of WaitCalls
\* is edited between and during slots, no packet is queued, and the rtimer
\* calls the routine at the time it was armed for.
EngineNext ==
  \/ \E c \in WaitCalls : TaskRequest(c)
  \/ TaskAcquire
  \/ TaskCritical
  \/ Scan(ScanOffset, CoordinatorEb)
  \/ \E missed \in 0 .. MaxMissed : ScheduleFirstSlot(0, missed)
  \/ \E missed \in 0 .. MaxMissed : TimerFire(missed)
  \/ \E missed \in 0 .. MaxMissed : SlotEnd(missed)
  \/ Resync

EngineSpec == Init /\ [][EngineNext]_vars

EngineFairSpec ==
  /\ EngineSpec
  /\ WF_vars(\E missed \in 0 .. MaxMissed : TimerFire(missed))
  /\ WF_vars(\E missed \in 0 .. MaxMissed : SlotEnd(missed))

\* ============================================================= properties
LinksOf(sf) == {slotframe_list[sf].links_list[i] :
                  i \in 1 .. Len(slotframe_list[sf].links_list)}
TxLinksTo(addr) ==
  {l \in InstalledLinks : "TX" \in link_memb[l].link_options /\ link_memb[l].addr = addr}
DedicatedTxLinksTo(addr) ==
  {l \in TxLinksTo(addr) : "SHARED" \notin link_memb[l].link_options}

\* C1: between the calls of the schedule and neighbor interface, every
\* installed TX link has a neighbor with the link's address in the table, and
\* each neighbor's tx_links_count (dedicated_tx_links_count) is the number of
\* installed TX links (without SHARED) to its address; so no counter has
\* wrapped below zero.
C1_LinkCountersMatch ==
  /\ \A l \in InstalledLinks :
       "TX" \in link_memb[l].link_options
         => \E n \in ListedNbrs : neighbor_memb[n].addr = link_memb[l].addr
  /\ \A n \in ListedNbrs :
       /\ neighbor_memb[n].tx_links_count
            = Cardinality(TxLinksTo(neighbor_memb[n].addr))
       /\ neighbor_memb[n].dedicated_tx_links_count
            = Cardinality(DedicatedTxLinksTo(neighbor_memb[n].addr))

\* The links that cover an ASN: one candidate per slotframe, the link at
\* timeslot asn mod size.
Candidates(asn) ==
  {l \in InstalledLinks :
     \E sf \in SlotframePtrs :
       l \in LinksOf(sf) /\ link_memb[l].timeslot = asn % slotframe_list[sf].size}
\* c has priority over l: TX over non-TX, then the smaller slotframe handle.
HasPriority(c, l) ==
  \/ "TX" \in link_memb[c].link_options /\ "TX" \notin link_memb[l].link_options
  \/ /\ ("TX" \in link_memb[c].link_options) = ("TX" \in link_memb[l].link_options)
     /\ link_memb[c].slotframe_handle < link_memb[l].slotframe_handle
Resolves(asn, r) ==
  /\ (r = NULL) <=> (Candidates(asn) = {})
  /\ r # NULL => /\ r \in Candidates(asn)
                 /\ \A c \in Candidates(asn) : ~HasPriority(c, r)

\* C4: whatever slotframes and links were added in whatever order,
\* get_link_from_asn(asn) is null iff no slotframe has a link at timeslot
\* asn mod size, and otherwise is a candidate over which no candidate has
\* priority (TX first, then the smallest slotframe handle).
C4_GetLinkFromAsnResolves ==
  /\ \A asn \in 0 .. MaxAsn : Resolves(asn, tsch_schedule_get_link_from_asn(Mem, asn))
  /\ task.op = "get_link_from_asn" =>
       \E asn \in 0 .. MaxAsn : Resolves(asn, task.r)

\* C5: no slotframe holds two links with the same timeslot; a successful
\* add_link leaves its link as the one link of its timeslot in the slotframe
\* whose handle it carries.
C5_OneLinkPerTimeslot ==
  /\ \A sf \in SlotframePtrs :
       \A i, j \in 1 .. Len(slotframe_list[sf].links_list) :
         i # j => link_memb[slotframe_list[sf].links_list[i]].timeslot
                    # link_memb[slotframe_list[sf].links_list[j]].timeslot
  /\ (task.op = "add_link" /\ task.r # NULL) =>
       \E sf \in SlotframePtrs :
         /\ slotframe_list[sf].handle = link_memb[task.r].slotframe_handle
         /\ {l \in LinksOf(sf) : link_memb[l].timeslot = link_memb[task.r].timeslot}
              = {task.r}

\* add_link has returned a link that took the place of another one.
C5_Replaced ==
  /\ task.op = "add_link" /\ task.r # NULL /\ task.replaced = 1
  /\ Cardinality(InstalledLinks) = MaxLinks

\* What a successful remove_link of l does to the counters and current_link.
C10_RemoveLinkStep(sf, l) ==
  LET link_options == link_memb[l].link_options
      addr == link_memb[l].addr
  IN /\ current_link = l => current_link' = NULL
     /\ "TX" \in link_options =>
          \E n \in ListedNbrs :
            /\ neighbor_memb[n].addr = addr
            /\ neighbor_memb'[n].addr = addr
            /\ neighbor_memb'[n].tx_links_count + 1 = neighbor_memb[n].tx_links_count
            /\ neighbor_memb'[n].dedicated_tx_links_count
                 + (IF "SHARED" \in link_options THEN 0 ELSE 1)
                 = neighbor_memb[n].dedicated_tx_links_count
     /\ "TX" \notin link_options =>
          \A n \in 1 .. MaxNbrs :
            /\ neighbor_memb'[n].tx_links_count = neighbor_memb[n].tx_links_count
            /\ neighbor_memb'[n].dedicated_tx_links_count
                 = neighbor_memb[n].dedicated_tx_links_count

\* C10: a successful remove_link of l, when l had TX, leaves the
\* tx_links_count of the neighbor l addressed one less than before, and its
\* dedicated_tx_links_count one less iff l had no SHARED; without TX no
\* counter changes; current_link is null afterwards if it pointed to l.
C10_RemoveLinkCounters ==
  [][\A sf \in SlotframePtrs : \A l \in LinksOf(sf) :
       (RemoveLink(sf, l) /\ task'.r = 1) => C10_RemoveLinkStep(sf, l)]_vars

\* The packets of n's ring from the get pointer to the put pointer, and the
\* frames they hold.
RingSeq(nm, n) ==
  [i \in 1 .. ringbufindex_elements(nm[n]) |->
     nm[n].tx_array[(nm[n].get_ptr + i - 1) % RingSize]]
Frames(nm, pm, n) ==
  [i \in 1 .. ringbufindex_elements(nm[n]) |-> pm[RingSeq(nm, n)[i]].qb]

\* What one step does to the queue of n: nothing, or the send path publishes
\* its frame at the tail, or the slot routine removes the packet it read at the
\* start of the slot, which is the head, and hands it on with its frame.
C6_QueueStep(n) ==
  \/ /\ RingSeq(neighbor_memb', n) = RingSeq(neighbor_memb, n)
     /\ Frames(neighbor_memb', packet_memb', n) = Frames(neighbor_memb, packet_memb, n)
  \/ /\ task.pc = "put" /\ task'.pc = "idle" /\ task.r = n
     /\ Frames(neighbor_memb', packet_memb', n)
          = Append(Frames(neighbor_memb, packet_memb, n), task.payload)
  \/ /\ isr.pc = "tx" /\ isr'.pc = "idle" /\ isr.n = n
     /\ RingSeq(neighbor_memb, n) # <<>>
     /\ Head(RingSeq(neighbor_memb, n)) = isr.p
     /\ RingSeq(neighbor_memb', n) = Tail(RingSeq(neighbor_memb, n))
     /\ Frames(neighbor_memb', packet_memb', n) = Tail(Frames(neighbor_memb, packet_memb, n))
     /\ dequeued_array' = Append(dequeued_array, isr.p)
     /\ packet_memb'[isr.p].qb = Head(Frames(neighbor_memb, packet_memb, n))

\* C6: under any interleaving of the send path's add_packet with the slot
\* routine's get_packet_for_nbr and remove_packet_from_queue, the packets of a
\* neighbor leave its queue in the order add_packet published them, each with
\* the frame it was enqueued with; the head read at the start of a slot is the
\* packet the next removal returns.
C6_Fifo ==
  [][/\ \A n \in ListedNbrs : n \in ListedNbrs' => C6_QueueStep(n)
     /\ (isr.pc = "idle" /\ isr'.pc = "tx") =>
          /\ RingSeq(neighbor_memb, isr'.n) # <<>>
          /\ isr'.p = Head(RingSeq(neighbor_memb, isr'.n))]_vars

\* The send path is between fill and put while the slot routine is in a TX
\* slot of the same neighbor, with a second packet behind the head and a
\* removal already done.
C6_Interleaved ==
  /\ task.pc = "put" /\ isr.pc = "tx" /\ isr.n = task.r
  /\ ringbufindex_elements(neighbor_memb[isr.n]) = 1
  /\ dequeued_array # <<>>

\* What send_packet does with a frame for the broadcast neighbor.
C7_SendStep(payload) ==
  LET n == NbrOf(tsch_broadcast_address) IN
  /\ n # NULL
  /\ (ringbufindex_elements(neighbor_memb[n]) < TSCH_QUEUE_NUM_PER_NEIGHBOR)
       <=> (task'.pc = "put")
  /\ task'.pc # "put" =>
       /\ sent_cb' = [called |-> TRUE, status |-> MAC_TX_ERR, transmissions |-> 1]
       /\ RingSeq(neighbor_memb', n) = RingSeq(neighbor_memb, n)
       /\ Frames(neighbor_memb', packet_memb', n) = Frames(neighbor_memb, packet_memb, n)

\* C7: with a free packet and a free frame buffer, the send path accepts a
\* frame for a neighbor iff the neighbor's ring holds fewer than
\* TSCH_QUEUE_NUM_PER_NEIGHBOR packets (so N enqueues in a row are accepted
\* and the next is not); a rejected frame is reported through the callback
\* with Err and the queue is left as it was.
C7_DepthN ==
  [][\A payload \in 1 .. MaxPayload :
       (/\ SendPacketFill(tsch_eb_address, 1, payload, TRUE)
        /\ memb_alloc(packet_memb) # NULL)
         => C7_SendStep(payload)]_vars

\* C8: the EB neighbor (all-zero address) and the broadcast neighbor (all-0xFF
\* address) are in the neighbor table in every state, and they are the entries
\* n_eb and n_broadcast point to; no call of the interface removes them.
C8_VirtualNeighborsKept ==
  /\ n_eb \in ListedNbrs
  /\ neighbor_memb[n_eb].used /\ neighbor_memb[n_eb].addr = tsch_eb_address
  /\ n_broadcast \in ListedNbrs
  /\ neighbor_memb[n_broadcast].used
  /\ neighbor_memb[n_broadcast].addr = tsch_broadcast_address

\* What the end of a TX slot that resets the backoff of its neighbor leaves.
C9_BackoffResetStep ==
  LET n == isr.n
      is_shared_link == "SHARED" \in link_memb[isr.l].link_options
  IN (/\ isr.pc = "tx" /\ isr'.pc = "idle"
      /\ packet_memb'[isr.p].ret = MAC_TX_OK
      /\ neighbor_memb[n].is_broadcast = 0
      /\ is_shared_link \/ ringbufindex_elements(neighbor_memb[n]) = 1)
       => /\ neighbor_memb'[n].backoff_window = 0
          /\ neighbor_memb'[n].backoff_exponent = MAC_MIN_BE

\* C9: every neighbor has backoff_window <= 2^backoff_exponent after every
\* step, and a step that resets the backoff of a neighbor (an acknowledged
\* unicast frame on a shared link, or one that empties the queue) leaves its
\* window 0 and its exponent MAC_MIN_BE.
C9_BackoffWindowBounded ==
  [][/\ \A n \in 1 .. MaxNbrs :
          neighbor_memb'[n].backoff_window <= Pow2(neighbor_memb'[n].backoff_exponent)
     /\ C9_BackoffResetStep]_vars

\* A neighbor in backoff at the largest exponent.
C9_InBackoff ==
  \E n \in ListedNbrs : /\ neighbor_memb[n].backoff_exponent = MAC_MAX_BE
                        /\ neighbor_memb[n].backoff_window > 0

\* C2: no mutator holds the global lock while the slot routine is inside a
\* slot operation: no state has tsch_locked = 1 and tsch_in_link_operation = 1,
\* a slot operation does not start while the lock is held, and the lock is
\* not granted while a slot operation runs.
C2_LockExcludesSlot ==
  [][/\ ~(tsch_locked' = 1 /\ tsch_in_link_operation' = 1)
     /\ (tsch_in_link_operation = 0 /\ tsch_in_link_operation' = 1) => tsch_locked = 0
     /\ (tsch_locked = 0 /\ tsch_locked' = 1) => tsch_in_link_operation = 0]_vars

\* C3: the link of every slot the slot routine executes is the link that
\* tsch_schedule_get_link_from_asn resolves for the ASN of the slot (TX before
\* no TX, then the smaller slotframe handle).
C3_SlotRunsResolvedLink ==
  [][(tsch_in_link_operation = 0 /\ tsch_in_link_operation' = 1) =>
       current_link = tsch_schedule_get_link_from_asn(MemUnlocked, current_asn)]_vars

\* C11: after a hop for (asn, offset) the channel is
\* hopping_sequence[(asn mod L + offset) mod L] with L the hopping-sequence
\* length set at init: the index lies inside the sequence and the channel is
\* one of its entries.
C11_ChannelInSequence ==
  task.op = "hop_channel" =>
    /\ ChannelIndex(task.asn, task.offset) \in 0 .. (Len(hopping_sequence_list) - 1)
    /\ current_channel =
         hopping_sequence_list[
           (((task.asn % hopping_sequence_length) + task.offset)
              % hopping_sequence_length) + 1]
    /\ \E i \in 1 .. Len(hopping_sequence_list) : current_channel = hopping_sequence_list[i]

\* A hop whose offset carries the index past the end of the sequence, at an
\* ASN beyond the first cycle.
C11_Wrapped ==
  /\ task.op = "hop_channel"
  /\ task.asn > hopping_sequence_length
  /\ (task.asn % hopping_sequence_length) + task.offset >= hopping_sequence_length

\* C12: an ACK with a sync IE from the time source sets drift_correction to the
\* received drift limited to -TsLongGT/2 .. TsLongGT/2; any other end of a
\* transmission leaves drift_correction at 0.
C12_DriftClamped ==
  [][isr.pc = "txlink" /\ isr'.pc = "slot" =>
       LET ack == isr'.ack
           bound == TsLongGT \div 2
           synced == /\ ack.tx /\ ack.ok /\ ack.ie
                     /\ neighbor_memb[isr.n].is_broadcast = 0
                     /\ neighbor_memb[isr.n].is_time_source = 1
       IN /\ drift_correction' \in -bound .. bound
          /\ synced /\ ack.drift > bound => drift_correction' = bound
          /\ synced /\ ack.drift < -bound => drift_correction' = -bound
          /\ synced /\ ack.drift \in -bound .. bound => drift_correction' = ack.drift
          /\ ~synced => drift_correction' = 0]_vars

\* C12 witness: the ACK of the time source carried a drift below the lower limit.
C12_ClampedBelow ==
  /\ isr.pc = "slot" /\ "ack" \in DOMAIN isr
  /\ isr.ack.ok /\ isr.ack.ie /\ isr.ack.drift < -(TsLongGT \div 2)
  /\ neighbor_memb[isr.n].is_time_source = 1
  /\ drift_correction = -(TsLongGT \div 2)

\* A step of the slot routine in which the epilogue schedules the next slot,
\* after a slot operation or after a skipped slot.
EpilogueTaken ==
  /\ isr'.pc = "yield" /\ task' = task
  /\ isr.pc = "slot" \/ (isr.pc = "yield" /\ current_asn' # current_asn)
\* The distance from asn to the next slot with an installed link, 1 without one.
SlotDistance(asn) ==
  LET sizes == {slotframe_list[sf].size : sf \in SlotframePtrs} \cup {1}
      far == CHOOSE s \in sizes : \A t \in sizes : t <= s
      ks == {k \in 1 .. far : Candidates(asn + k) # {}}
  IN IF ks = {} THEN 1 ELSE CHOOSE k \in ks : \A j \in ks : k <= j
\* The ASN after the given number of iterations of the epilogue, each over the
\* distance to the next active link, or over one slot when the lookup is blind.
RECURSIVE AsnAfter(_, _, _)
AsnAfter(asn, iterations, blind) ==
  IF iterations = 0 THEN asn
  ELSE AsnAfter(asn + (IF blind THEN 1 ELSE SlotDistance(asn)), iterations - 1, blind)

\* C13: every iteration of the epilogue advances current_asn by the distance
\* to the next active link (1 when there is none) and current_link_start by
\* that distance times TsSlotDuration; last_sync_asn is not modified.
C13_EpilogueAdvances ==
  [][EpilogueTaken =>
       /\ \E iterations \in 1 .. MaxMissed + 1 :
            current_asn' = AsnAfter(current_asn, iterations, FALSE)
       /\ current_link_start' - current_link_start
            = (current_asn' - current_asn) * TsSlotDuration
       /\ last_sync_asn' = last_sync_asn]_vars

\* C13 (amended): every iteration of the epilogue advances current_asn by the
\* distance the lookup of the schedule finds (1 when it returns no link, as it
\* does while the lock is held) and current_link_start by that distance times
\* TsSlotDuration, the first iteration adding the pending drift correction,
\* which is then cleared; last_sync_asn is not modified.
C13_EpilogueAdvancesWithDrift ==
  [][EpilogueTaken =>
       /\ \E iterations \in 1 .. MaxMissed + 1 :
            current_asn' = AsnAfter(current_asn, iterations, tsch_locked = 1)
       /\ current_link_start' - current_link_start
            = (current_asn' - current_asn) * TsSlotDuration + drift_correction
       /\ drift_correction' = 0
       /\ last_sync_asn' = last_sync_asn]_vars

\* C13 witness: a slot was scheduled after a drift correction, off the grid of
\* the slots counted from the association.
C13_Shifted ==
  /\ isr.pc = "yield" /\ associated = 1
  /\ current_link_start # current_asn * TsSlotDuration
  /\ drift_correction = 0

\* A call of the schedule interface starts or returns at once.
CallStarts ==
  /\ task.pc = "idle" /\ task' # task
  /\ task'.op \in {"add_slotframe", "add_link", "remove_link"}

\* C14: tsch_get_lock called while the lock is held fails and leaves
\* tsch_locked and tsch_lock_requested as they were; called while the lock is
\* free it raises tsch_lock_requested, returns only when no slot operation is
\* in progress, and then holds the lock with the request withdrawn; the lock is
\* only ever taken while it is free.
C14_GetLock ==
  [][/\ CallStarts /\ tsch_locked = 1 =>
          /\ task'.pc = "idle" /\ task'.r = 0
          /\ UNCHANGED <<tsch_locked, tsch_lock_requested>>
     /\ task'.pc = "wait" /\ task.pc # "wait" =>
          /\ tsch_locked = 0
          /\ tsch_lock_requested' = 1
          /\ UNCHANGED tsch_locked
     /\ task.pc = "wait" /\ task'.pc # "wait" =>
          /\ tsch_in_link_operation = 0
          /\ tsch_locked = 0 /\ tsch_locked' = 1
          /\ tsch_lock_requested' = 0
          /\ task'.pc = "crit"
     /\ tsch_locked = 0 /\ tsch_locked' = 1 => task.pc = "wait"]_vars

\* C14 witness: the lock was taken after a slot operation that ran during the
\* request.
C14_LockTaken ==
  /\ task.pc = "crit" /\ tsch_locked = 1 /\ tsch_lock_requested = 0
  /\ isr.pc = "yield" /\ current_asn > 0

\* The timer of an associated node fires and the slot routine runs up to its
\* next wait.
TimerFired ==
  /\ isr.pc = "yield" /\ associated = 1 /\ task' = task
  /\ isr' # isr \/ current_asn' # current_asn
\* The slot operation of the link is entered.
SlotExecuted == tsch_in_link_operation' = 1 /\ isr'.pc \in {"slot", "txlink"}
\* Nothing of a slot operation happens: no hop, no frame, the queues and the
\* backoff exponents as before.
SlotSkipped ==
  /\ tsch_in_link_operation' = 0 /\ isr'.pc \in {"yield", "ended"}
  /\ UNCHANGED <<current_channel, packet_memb, dequeued_array, tsch_random_seed>>
  /\ \A n \in 1 .. MaxNbrs :
       /\ neighbor_memb'[n].tx_array = neighbor_memb[n].tx_array
       /\ neighbor_memb'[n].put_ptr = neighbor_memb[n].put_ptr
       /\ neighbor_memb'[n].get_ptr = neighbor_memb[n].get_ptr
       /\ neighbor_memb'[n].backoff_exponent = neighbor_memb[n].backoff_exponent

SlotOver ==
  /\ task' = task
  /\ \/ isr.pc = "slot" /\ isr'.pc # "slot"
     \/ /\ isr.pc = "yield" /\ associated = 1 /\ isr'.pc \in {"yield", "ended"}
        /\ isr' # isr \/ current_asn' # current_asn

\* C16: at the end of a slot a non-coordinator with current_asn - last_sync_asn
\* above the desync threshold leaves the network (associated = 0, no further
\* slot, the main task free to resynchronise); any other node stays associated
\* and has its next slot scheduled; a coordinator never leaves.
C16_DesyncLeaves ==
  [][SlotOver =>
       IF tsch_is_coordinator = 0 /\ current_asn - last_sync_asn > DesyncThresholdSlots
       THEN /\ associated' = 0 /\ isr'.pc = "ended"
            /\ UNCHANGED <<current_asn, current_link>>
       ELSE /\ associated' = 1 /\ isr'.pc = "yield"
            /\ current_asn' > current_asn]_vars

\* C16 witness: a non-coordinator has left the network for want of
\* synchronisation.
C16_Left ==
  /\ tsch_is_coordinator = 0 /\ associated = 0 /\ isr.pc = "ended"
  /\ current_asn - last_sync_asn > DesyncThresholdSlots

\* The node has left the network and its slot loop has ended.
Desynchronized == associated = 0 /\ isr.pc = "ended"
\* The reset of the main task has run and the scan can start.
ResetDone == task.op = "tsch_reset" /\ associated = 0 /\ isr.pc = "idle"

\* C17: after a desynchronisation the main task eventually runs the reset, which
\* leaves no time source, join priority 0xff, current_asn 0 and no current
\* link, and the scan restarts; while the node is not associated no slot
\* operation runs and the EB generator enqueues nothing.
C17_ResetAfterDesync ==
  /\ Desynchronized ~> ResetDone
  /\ [][/\ Desynchronized /\ ResetDone' =>
             /\ \A n \in 1 .. MaxNbrs : neighbor_memb'[n].is_time_source = 0
             /\ tsch_join_priority' = 255
             /\ current_asn' = 0
             /\ current_link' = NULL
        /\ associated = 0 =>
             /\ tsch_in_link_operation' = 0
             /\ isr'.pc \notin {"slot", "txlink"}
             /\ UNCHANGED packet_memb]_vars

\* A round of the scan of a non-coordinator has run; its EB is task'.eb.
ScanDone ==
  /\ tsch_is_coordinator = 0 /\ associated = 0 /\ task.pc = "idle"
  /\ task'.op = "tsch_associate"
\* A neighbor for addr exists or can be made: the queue is not locked and
\* neighbor_memb has the entry or a free one.
NbrAllocatable(addr) ==
  /\ tsch_locked = 0
  /\ \E n \in 1 .. MaxNbrs :
       ~neighbor_memb[n].used \/ neighbor_memb[n].addr = addr

\* C18: a scanning non-coordinator that receives a valid EB from S with ASN A
\* and a join priority J below the maximum, a neighbor for S being
\* allocatable, ends the association step with S a neighbor and the only time
\* source, current_asn = last_sync_asn = A, join priority J + 1 and
\* associated = 1; with an EB that does not parse, J not below the maximum or
\* no neighbor to allocate, it stays unassociated and no neighbor is marked
\* time source.
C18_Associate ==
  [][ScanDone =>
       IF /\ task'.eb.parsed
          /\ task'.eb.jp < TSCH_MAX_JOIN_PRIORITY
          /\ NbrAllocatable(task'.eb.src)
       THEN /\ \E n \in 1 .. MaxNbrs :
                 /\ neighbor_memb'[n].used
                 /\ neighbor_memb'[n].addr = task'.eb.src
                 /\ neighbor_memb'[n].is_time_source = 1
            /\ \A n \in 1 .. MaxNbrs :
                 neighbor_memb'[n].used /\ neighbor_memb'[n].is_time_source = 1
                   => neighbor_memb'[n].addr = task'.eb.src
            /\ current_asn' = task'.eb.asn
            /\ last_sync_asn' = task'.eb.asn
            /\ tsch_join_priority' = task'.eb.jp + 1
            /\ associated' = 1
       ELSE /\ associated' = 0
            /\ \A n \in 1 .. MaxNbrs :
                 ~(neighbor_memb'[n].used /\ neighbor_memb'[n].is_time_source = 1)]_vars

\* C18 witness: the node has associated to the sender of the EB, now its time
\* source, at the ASN of the EB.
C18_Joined ==
  /\ tsch_is_coordinator = 0 /\ associated = 1
  /\ task.op = "tsch_associate" /\ task.pc = "first" /\ task.eb.parsed
  /\ current_asn = task.eb.asn /\ last_sync_asn = task.eb.asn
  /\ tsch_join_priority = task.eb.jp + 1
  /\ \E n \in 1 .. MaxNbrs :
       /\ neighbor_memb[n].used /\ neighbor_memb[n].addr = task.eb.src
       /\ neighbor_memb[n].is_time_source = 1

\* tsch_rx_process_pending has taken an EB from the input ring (task'.call).
EbTaken == task.pc = "idle" /\ task' # task /\ task'.op = "rx_eb"
\* The sender of the EB is the neighbor marked as the time source.
FromTimeSource(src) ==
  \E n \in 1 .. MaxNbrs :
    /\ neighbor_memb[n].used /\ neighbor_memb[n].is_time_source = 1
    /\ neighbor_memb[n].addr = src

\* C19: an EB from the current time source whose ASN differs by d # 0 from the
\* ASN of its reception makes the event pump acquire the global lock, and with
\* the lock set current_link to NULL, change current_asn by exactly -d, set
\* last_sync_asn to the new current_asn and release the lock; the main task
\* never corrects current_asn without holding the lock; an EB with d = 0 or
\* from another sender changes none of current_link, current_asn and
\* last_sync_asn.
C19_EbCorrectsAsn ==
  [][/\ EbTaken =>
          /\ UNCHANGED <<current_link, current_asn, last_sync_asn>>
          /\ IF FromTimeSource(task'.call.src) /\ task'.call.asn_diff # 0
             THEN task'.pc = "wait" /\ tsch_lock_requested' = 1
             ELSE task'.pc = "idle"
     /\ task.op = "rx_eb" /\ task.pc = "wait" /\ task' # task =>
          /\ task'.pc = "crit" /\ tsch_locked' = 1
          /\ UNCHANGED <<current_link, current_asn, last_sync_asn>>
     /\ task.op = "rx_eb" /\ task.pc = "crit" /\ task' # task =>
          /\ tsch_locked = 1 /\ tsch_locked' = 0
          /\ current_link' = NULL
          /\ current_asn' = current_asn - task.call.asn_diff
          /\ last_sync_asn' = current_asn'
     /\ task' # task /\ current_asn' # current_asn /\ task'.op = "rx_eb" =>
          tsch_locked = 1 /\ task.pc = "crit"]_vars

\* C19 witness: the ASN has been corrected by an EB of the time source, the
\* slot called off and the lock released.
C19_Corrected ==
  /\ task.op = "rx_eb" /\ task.pc = "idle" /\ task.r = 1
  /\ task.call.asn_diff # 0
  /\ current_link = NULL /\ last_sync_asn = current_asn /\ tsch_locked = 0
  /\ associated = 1

\* A unicast attempt on a shared TX link ends without the frame acknowledged
\* (a slot the full dequeued ring short-circuits makes no attempt).
SharedUnicastFailure ==
  /\ isr.pc = "tx" /\ isr'.pc = "idle"
  /\ ~DequeuedFull(Mem)
  /\ packet_memb'[isr.p].ret # MAC_TX_OK
  /\ neighbor_memb[isr.n].is_broadcast = 0
  /\ "SHARED" \in link_memb[isr.l].link_options
\* The neighbor of the attempt as update_neighbor_state leaves it, before the
\* end of the slot takes one off the windows.
AfterUpdate ==
  update_neighbor_state(Mem, isr.n, isr.p, 1, packet_memb'[isr.p].ret).m.neighbor_memb[isr.n]

\* C20: a failed unicast attempt on a SHARED TX link sets the backoff_exponent
\* of the neighbor to min(previous exponent + 1, MAC_MAX_BE) and draws
\* backoff_window in [1, 2^(new exponent)]; from the reset state (exponent
\* MAC_MIN_BE = 2) the first failure gives exponent 3 and a window in [1, 8],
\* the second exponent 4 and a window in [1, 16], and the exponent never
\* exceeds MAC_MAX_BE.
C20_BackoffInc ==
  [][/\ SharedUnicastFailure =>
          /\ AfterUpdate.backoff_exponent
               = Min(neighbor_memb[isr.n].backoff_exponent + 1, MAC_MAX_BE)
          /\ AfterUpdate.backoff_window \in 1 .. Pow2(AfterUpdate.backoff_exponent)
          /\ neighbor_memb[isr.n].backoff_exponent = 2 =>
               /\ AfterUpdate.backoff_exponent = 3
               /\ AfterUpdate.backoff_window \in 1 .. 8
          /\ neighbor_memb[isr.n].backoff_exponent = 3 =>
               /\ AfterUpdate.backoff_exponent = 4
               /\ AfterUpdate.backoff_window \in 1 .. 16
          /\ neighbor_memb'[isr.n].backoff_exponent = AfterUpdate.backoff_exponent
          /\ neighbor_memb'[isr.n].backoff_window
               \in {AfterUpdate.backoff_window - 1, AfterUpdate.backoff_window}
     /\ \A n \in 1 .. MaxNbrs : neighbor_memb'[n].backoff_exponent <= MAC_MAX_BE]_vars

\* C20 witness: more failures in a row than there are exponents between
\* MAC_MIN_BE and MAC_MAX_BE have left a neighbor at MAC_MAX_BE.
C20_Saturated ==
  /\ draws > MAC_MAX_BE - MAC_MIN_BE
  /\ \E n \in ListedNbrs : /\ neighbor_memb[n].is_broadcast = 0
                           /\ neighbor_memb[n].backoff_exponent = MAC_MAX_BE

\* A TX slot that put a unicast frame on the air over a dedicated link at its
\* first attempt and received the ACK.
AckedFirstAttempt ==
  /\ isr.pc = "tx" /\ isr'.pc = "txdone"
  /\ "transmit" \in isr'.radio /\ isr'.rd.ack.ok
  /\ neighbor_memb[isr.n].is_broadcast = 0
  /\ "SHARED" \notin link_memb[isr.l].link_options
  /\ packet_memb[isr.p].transmissions = 0
\* The packet at the head of the queue of the neighbor n.
QueueHead(n) == neighbor_memb[n].tx_array[neighbor_memb[n].get_ptr % RingSize]
Backoff(nbr) == <<nbr.backoff_exponent, nbr.backoff_window>>
\* The callback that the pending-events process delivers for the i-th packet
\* of the dequeued ring.
CallbackOf(i) ==
  tsch_tx_process_pending([Mem EXCEPT !.dequeued_array = SubSeq(@, 1, i)]).sent_cb
\* The slot takes the packet from the head of the queue and hands it over to
\* the pending-events process.
LeavesQueue ==
  /\ QueueHead(isr.n) = isr.p
  /\ neighbor_memb'[isr.n].get_ptr = (neighbor_memb[isr.n].get_ptr + 1) % (2 * RingSize)
  /\ neighbor_memb'[isr.n].put_ptr = neighbor_memb[isr.n].put_ptr
  /\ dequeued_array' = Append(dequeued_array, isr.p)
\* The acknowledged frame leaves the queue with Ok and one transmission.
AckedLeavesQueue ==
  AckedFirstAttempt =>
    /\ LeavesQueue
    /\ packet_memb'[isr.p].ret = MAC_TX_OK
    /\ packet_memb'[isr.p].transmissions = 1
\* Handed-over packets wait as they are for the pending-events process, whose
\* callbacks report their results and attempt counters.
DequeuedReported ==
  \A i \in 1 .. Len(dequeued_array) :
       /\ CallbackOf(i) = [called |-> TRUE, status |-> packet_memb[dequeued_array[i]].ret,
                           transmissions |-> packet_memb[dequeued_array[i]].transmissions]
       /\ \/ /\ dequeued_array' = <<>>
             /\ sent_cb' = CallbackOf(Len(dequeued_array))
          \/ /\ Len(dequeued_array') >= i
             /\ dequeued_array'[i] = dequeued_array[i]
             /\ packet_memb'[dequeued_array[i]] = packet_memb[dequeued_array[i]]
\* The end of the slot on a dedicated link leaves the neighbors alone.
DedicatedSlotEnd ==
  isr.pc = "txdone" /\ isr'.pc = "idle" /\ "SHARED" \notin link_memb[isr.l].link_options
    => neighbor_memb' = neighbor_memb

\* C21 (as stated): a unicast frame sent on a dedicated (non-SHARED) TX link
\* and acknowledged on the first attempt is removed from the head of its
\* queue, its callback is invoked with Ok and transmissions = 1, and the
\* backoff_exponent and backoff_window of the neighbor are the same after the
\* slot as before it.
C21_AckedKeepsBackoff ==
  [][/\ AckedLeavesQueue
     /\ DequeuedReported
     /\ DedicatedSlotEnd
     /\ AckedFirstAttempt =>
          Backoff(neighbor_memb'[isr.n]) = Backoff(neighbor_memb[isr.n])]_vars

\* C21 (amended): a unicast frame sent on a dedicated (non-SHARED) TX link and
\* acknowledged on the first attempt is removed from the head of its queue,
\* its callback is invoked with Ok and transmissions = 1; the backoff_exponent
\* and backoff_window of the neighbor are the same after the slot as before it
\* when another packet is left in the queue, and are reset to MAC_MIN_BE and 0
\* when the frame was the last of the queue.
C21_AckedDedicated ==
  [][/\ AckedLeavesQueue
     /\ DequeuedReported
     /\ DedicatedSlotEnd
     /\ AckedFirstAttempt =>
          Backoff(neighbor_memb'[isr.n])
            = IF neighbor_memb'[isr.n].get_ptr = neighbor_memb'[isr.n].put_ptr
              THEN <<MAC_MIN_BE, 0>>
              ELSE Backoff(neighbor_memb[isr.n])]_vars

\* C21 witness: a first attempt on a dedicated link was acknowledged while the
\* neighbor was backing off and another packet waits in the queue.
C21_AckedInBackoff ==
  /\ isr.pc = "txdone" /\ "transmit" \in isr.radio /\ isr.rd.ack.ok
  /\ "SHARED" \notin link_memb[isr.l].link_options
  /\ neighbor_memb[isr.n].is_broadcast = 0
  /\ packet_memb[isr.p].transmissions = 1 /\ packet_memb[isr.p].ret = MAC_TX_OK
  /\ neighbor_memb[isr.n].get_ptr # neighbor_memb[isr.n].put_ptr
  /\ neighbor_memb[isr.n].backoff_exponent > MAC_MIN_BE
  /\ neighbor_memb[isr.n].backoff_window > 0

\* A TX slot in which the framer refused to update the EB, or the radio
\* refused the frame at prepare or at transmit.
Refused ==
  /\ isr.pc = "tx" /\ isr'.pc = "txdone" /\ ~isr'.full
  /\ packet_memb[isr.p].qb # NULL
  /\ \/ isr.n = n_eb /\ ~isr'.rd.ready
     \/ "prepare" \in isr'.radio /\ ~isr'.rd.prepare
     \/ "transmit" \in isr'.radio /\ ~isr'.rd.ack.tx

\* C27: in a TX slot in which the framer refuses to update the EB or the radio
\* refuses the frame at prepare or at transmit, the result recorded for the
\* attempt is Err, never Ok, whatever earlier slots produced, and the packet
\* is not removed from its queue as a success.
C27_RefusedIsErr ==
  [][Refused =>
       /\ packet_memb'[isr.p].ret = MAC_TX_ERR
       /\ ~(/\ dequeued_array' = Append(dequeued_array, isr.p)
            /\ packet_memb'[isr.p].ret = MAC_TX_OK)]_vars

\* A TX slot of a build with CCA that came to the CCA window: the frame was
\* accepted by the framer and the radio.
CcaSlot ==
  /\ isr.pc = "tx" /\ isr'.pc = "txdone" /\ ~isr'.full
  /\ isr'.cca = 1 /\ "channel_clear" \in isr'.radio

\* C28: with CCA enabled, if the channel never reads clear between
\* T0 + TsCCAOffset and T0 + TsCCAOffset + TsCCA, the result of the attempt is
\* Collision and the radio transmit is not called in that slot; if the channel
\* reads clear within that window the frame is transmitted.
C28_CcaCollision ==
  [][CcaSlot =>
       IF isr'.rd.clear = 0
       THEN /\ packet_memb'[isr.p].ret = MAC_TX_COLLISION
            /\ "transmit" \notin isr'.radio
       ELSE "transmit" \in isr'.radio]_vars

\* A TX slot that ran for the packet isr.p: the dequeued ring had a free slot.
Attempted == isr.pc = "tx" /\ isr'.pc = "txdone" /\ ~isr'.full
\* The frame went on the air and, when unicast, was acknowledged.
Delivered ==
  /\ "transmit" \in isr'.radio /\ isr'.rd.ack.tx
  /\ neighbor_memb[isr.n].is_broadcast = 1 \/ isr'.rd.ack.ok
AttemptFailed == Attempted /\ ~Delivered

\* C22: a packet whose transmission attempt fails stays at the head of the
\* queue of its neighbor while its attempt counter is below
\* MAC_MAX_FRAME_RETRIES + 1, and is removed and reported to the completion
\* callback with a non-Ok result exactly at the attempt that brings the counter
\* to MAC_MAX_FRAME_RETRIES + 1; no attempt counter ever exceeds
\* MAC_MAX_FRAME_RETRIES + 1, and the counter reported to the callback is the
\* number of slots in which the packet was attempted.
C22_Retries ==
  [][/\ AttemptFailed =>
          IF packet_memb'[isr.p].transmissions < MaxRetries + 1
          THEN /\ neighbor_memb'[isr.n].get_ptr = neighbor_memb[isr.n].get_ptr
               /\ QueueHead(isr.n) = isr.p
               /\ dequeued_array' = dequeued_array
          ELSE /\ LeavesQueue
               /\ packet_memb'[isr.p].transmissions = MaxRetries + 1
               /\ packet_memb'[isr.p].ret # MAC_TX_OK
     /\ DequeuedReported
     /\ \A p \in 1 .. MaxPackets :
          /\ packet_memb'[p].transmissions <= MaxRetries + 1
          /\ packet_memb'[p].used =>
               packet_memb'[p].transmissions
                 = IF ~packet_memb[p].used THEN 0
                   ELSE IF Attempted /\ isr.p = p THEN packet_memb[p].transmissions + 1
                   ELSE packet_memb[p].transmissions]_vars

\* A TX slot that found the dequeued ring full.
RingFullSlot == isr.pc = "tx" /\ isr'.pc = "txdone" /\ isr'.full

RxFullSlot == isr.pc = "rx" /\ isr'.pc = "rxdone" /\ isr'.full

\* C29: in an RX slot that finds the input ring full, the drop counter is
\* incremented, no entry of the input ring is written or published, and the
\* radio is still turned on to listen during the guard window.
C29_FullInputListens ==
  [][RxFullSlot =>
       /\ input_queue_drop' = input_queue_drop + 1
       /\ input_array' = input_array
       /\ "read" \notin isr'.radio
       /\ "on" \in isr'.radio]_vars

\* The slot routine has chosen a packet: a TX slot starts.
Selected == isr.pc = "idle" /\ isr'.pc = "tx"
QueueOf(nbr) == <<nbr.tx_array, nbr.put_ptr, nbr.get_ptr>>

\* C30: no data packet is ever selected for transmission on a SHARED link
\* while the backoff_window of its neighbor is greater than 0:
\* get_packet_for_nbr on a shared link returns the head only when
\* backoff_window = 0, on a non-shared link it returns the head regardless of
\* the backoff, and in both cases it leaves the queue and its indices
\* unchanged.
C30_SharedMasked ==
  [][/\ Selected =>
          /\ QueueHead(isr'.n) = isr'.p
          /\ "SHARED" \in link_memb[isr'.l].link_options /\ isr'.n # n_eb
               => neighbor_memb[isr'.n].backoff_window = 0
          /\ \A n \in 1 .. MaxNbrs : QueueOf(neighbor_memb'[n]) = QueueOf(neighbor_memb[n])
     /\ \A i \in 1 .. Len(neighbor_list) :
          \E n \in {neighbor_list[i]} :
            /\ tsch_queue_get_packet_for_nbr(Mem, n, 1) # NULL =>
                 /\ neighbor_memb[n].backoff_window = 0
                 /\ tsch_queue_get_packet_for_nbr(Mem, n, 1) = QueueHead(n)
            /\ ~ringbufindex_empty(neighbor_memb[n]) =>
                 tsch_queue_get_packet_for_nbr(Mem, n, 0) = QueueHead(n)]_vars

\* The four conditions on a neighbor that may go: its queue is empty, it is no
\* virtual neighbor, it is not the time source, no installed TX link has its
\* address.
MayGo(n) ==
  /\ ringbufindex_empty(neighbor_memb[n])
  /\ neighbor_memb[n].is_broadcast = 0
  /\ neighbor_memb[n].is_time_source = 0
  /\ TxLinksTo(neighbor_memb[n].addr) = {}
\* A call of tsch_queue_free_unused_neighbors.
FreeUnusedCalled ==
  /\ TaskReady /\ task'.op = "free_unused_neighbors"
  /\ Mem' = tsch_queue_free_unused_neighbors(Mem)

\* C23: a neighbor is removed from the neighbor list only when, at that
\* moment, its queue is empty, it is not a virtual broadcast/EB neighbor, it
\* is not the time source and no installed TX link targets it;
\* free_unused_neighbors removes every neighbor that satisfies all four
\* conditions and no other, so no neighbor with a queued packet is ever freed.
C23_NeighborRemoval ==
  [][/\ \A n \in ListedNbrs : n \notin ListedNbrs' => MayGo(n)
     /\ FreeUnusedCalled => ListedNbrs' = {n \in ListedNbrs : ~MayGo(n)}]_vars

\* A call of tsch_queue_add_packet that returned 0.
AddPacketFailed == TaskReady /\ task'.op = "add_packet" /\ task'.r = 0

\* C24: when add_packet fails at any step (lock held, neighbor not
\* allocatable, ring full, packet pool exhausted, frame buffer not
\* allocatable), it returns failure and the state is as before the call:
\* every neighbor queue holds the same packets, the neighbor list is the same,
\* and no packet or frame buffer remains allocated by the failed call.
C24_AddPacketFailsCleanly ==
  [][AddPacketFailed =>
       /\ neighbor_list' = neighbor_list
       /\ neighbor_memb' = neighbor_memb
       /\ packet_memb' = packet_memb]_vars

\* The size of the slotframe of the installed link l.
SizeOfLink(l) ==
  slotframe_list[CHOOSE sf \in SlotframePtrs : l \in LinksOf(sf)].size

\* C25: for every ASN a and every schedule with at least one installed link,
\* get_next_active_link(a) returns a link L and an offset d with d >= 1 and
\* (a + d) mod (size of the slotframe of L) = L.timeslot, and no installed link
\* in any slotframe occurs at a positive slot distance smaller than d; with no
\* installed link it returns null.
C25_NextActiveLink ==
  task.op = "get_next_active_link" =>
    IF InstalledLinks = {} THEN task.r = NULL
    ELSE /\ task.r \in InstalledLinks
         /\ task.time_offset >= 1
         /\ (task.asn + task.time_offset) % SizeOfLink(task.r) = link_memb[task.r].timeslot
         /\ \A d \in 1 .. (task.time_offset - 1) : Candidates(task.asn + d) = {}

\* The neighbors get_unicast_packet_for_any is to consider, with a head that
\* passes the backoff mask of the link.
AnyEligible(nm, lm, is_shared_link) ==
  {n \in ListedNbrs :
     /\ nm[n].is_broadcast = 0
     /\ ~\E l \in 1 .. MaxLinks :
           /\ lm[l].used /\ lm[l].addr = nm[n].addr
           /\ "TX" \in lm[l].link_options /\ "SHARED" \notin lm[l].link_options
     /\ ~ringbufindex_empty(nm[n])
     /\ is_shared_link = 0 \/ nm[n].backoff_window = 0}
\* The slot runs on a link to the broadcast address whose own queue gave no
\* packet: the packet is that of get_unicast_packet_for_any.
ServedByAny ==
  /\ link_memb[isr'.l].addr = tsch_broadcast_address
  /\ link_memb[isr'.l].link_type = "NORMAL"
  /\ isr'.n # n_broadcast
IsShared(l) == IF "SHARED" \in link_memb[l].link_options THEN 1 ELSE 0
\* What the call of the next slot on the same link returns.
NextForAny == tsch_queue_get_unicast_packet_for_any(Mem', NULL, IsShared(isr.l))

\* C31: get_unicast_packet_for_any considers exactly the non-broadcast
\* neighbors that have no dedicated TX link, returns the head packet (and its
\* neighbor) of one whose head passes the shared-link backoff mask and null
\* when there is none, and serves the eligible neighbors round-robin across
\* successive calls: the neighbor served in a slot is not served by the next
\* call again while another eligible neighbor waits.
C31_AnyRoundRobin ==
  [][/\ Selected /\ ServedByAny =>
          /\ isr'.n \in AnyEligible(neighbor_memb, link_memb, IsShared(isr'.l))
          /\ isr'.p = QueueHead(isr'.n)
     /\ isr.pc = "tx" /\ isr'.pc = "idle" /\ link_memb[isr.l].addr = tsch_broadcast_address =>
          \E e \in {AnyEligible(neighbor_memb', link_memb', IsShared(isr.l))} :
            /\ e = {} <=> NextForAny.p = NULL
            /\ e # {} => NextForAny.n \in e
            /\ isr.n # n_broadcast /\ e \ {isr.n} # {} => NextForAny.n # isr.n]_vars

\* The neighbor table after the windows of the neighbors that may transmit
\* over a shared TX link to dest were decremented; the TX links of a neighbor
\* are those its tx_links_count counts.
WindowsDecremented(nm, dest) ==
  [n \in DOMAIN nm |->
     IF /\ n \in ListedNbrs
        /\ nm[n].backoff_window > 0
        /\ \/ dest = tsch_broadcast_address /\ nm[n].tx_links_count = 0
           \/ dest = nm[n].addr /\ nm[n].tx_links_count > 0
     THEN [nm[n] EXCEPT !.backoff_window = @ - 1]
     ELSE nm[n]]
\* The link of the slot at asn.
LinkAt(asn) == IF Candidates(asn) = {} THEN NULL ELSE CHOOSE r \in Candidates(asn) : Resolves(asn, r)
\* The neighbor table after the end of the slot of link l at asn and of the
\* slots that the epilogue passes over in its further iterations; with the
\* lock held the schedule is not looked up, and the windows are decremented
\* only when unlocked is TRUE.
RECURSIVE WindowsAfter(_, _, _, _, _)
WindowsAfter(nm, asn, l, iterations, unlocked) ==
  IF iterations = 0 THEN nm
  ELSE \* the slot of l ends
       LET shared == l # NULL /\ {"TX", "SHARED"} \subseteq link_memb[l].link_options
           next == asn + (IF tsch_locked = 1 THEN 1 ELSE SlotDistance(asn))
       IN WindowsAfter(IF shared /\ unlocked THEN WindowsDecremented(nm, link_memb[l].addr) ELSE nm,
                       next, IF tsch_locked = 1 THEN NULL ELSE LinkAt(next),
                       iterations - 1, unlocked)
\* A step other than the epilogue lowers a window only by resetting the
\* backoff of the neighbor.
NoOtherDecrement ==
  ~EpilogueTaken =>
     \A n \in 1 .. MaxNbrs :
        neighbor_memb'[n].backoff_window < neighbor_memb[n].backoff_window =>
          /\ neighbor_memb'[n].backoff_window = 0
          /\ neighbor_memb'[n].backoff_exponent \in {MAC_MIN_BE, FreeNbr.backoff_exponent}
          /\ neighbor_memb'[n].backoff_exponent # neighbor_memb[n].backoff_exponent
WindowsNotNegative == \A n \in 1 .. MaxNbrs : neighbor_memb'[n].backoff_window >= 0

Transmits == isr'.pc = "txlink"
Listens == isr'.pc = "slot" /\ isr'.yielded
IdleSlot == isr'.pc = "slot" /\ ~isr'.yielded
EbQueued == ~ringbufindex_empty(neighbor_memb[n_eb])

\* C33: in every executed slot the routine does exactly one of: transmit (iff
\* a packet was selected for the link), listen (iff no packet was selected
\* and the link has the RX option), or idle; a packet is selected only if the
\* link has the TX option; on an Advertising link a queued EB is chosen
\* before any data packet; and on an AdvertisingOnly link nothing but an EB is
\* ever transmitted.
C33_SlotBranch ==
  [][TimerFired /\ SlotExecuted =>
       \E link \in {link_memb[current_link]} :
         /\ isr'.l = current_link
         /\ Transmits <=> isr'.p # NULL
         /\ Listens <=> isr'.p = NULL /\ "RX" \in link.link_options
         /\ IdleSlot <=> isr'.p = NULL /\ "RX" \notin link.link_options
         /\ isr'.p # NULL =>
              /\ "TX" \in link.link_options
              /\ isr'.n \in ListedNbrs /\ isr'.p = QueueHead(isr'.n)
              /\ packet_memb[isr'.p].used
         /\ link.link_type = "ADVERTISING" /\ isr'.p # NULL /\ isr'.n # n_eb => ~EbQueued
         /\ link.link_type = "ADVERTISING" /\ EbQueued /\ "TX" \in link.link_options
              /\ tsch_locked = 0 => isr'.n = n_eb /\ isr'.p = QueueHead(n_eb)
         /\ link.link_type = "ADVERTISING_ONLY" /\ isr'.p # NULL => isr'.n = n_eb]_vars

\* C33 witness: a slot on an AdvertisingOnly link with the TX and RX options
\* listens, without an EB to send, while a broadcast frame is queued.
C33_AdvertisingOnlyListens ==
  /\ isr.pc = "slot" /\ isr.yielded /\ tsch_in_link_operation = 1
  /\ link_memb[isr.l].link_type = "ADVERTISING_ONLY"
  /\ "TX" \in link_memb[isr.l].link_options
  /\ ~EbQueued /\ ~ringbufindex_empty(neighbor_memb[n_broadcast])
  /\ tsch_locked = 0

\* The step of tsch_rx_process_pending that handles the join priority of an EB.
EbHandled ==
  /\ task' # task /\ task'.op = "rx_eb" /\ task'.pc = "idle"
  /\ task.pc \in {"idle", "crit"}

\* C35: when the event pump processes an EB from the time source advertising
\* join priority J, the node's join priority becomes J + 1 and it stays
\* associated if J does not exceed the join-priority maximum, and it leaves the
\* network (associated becomes false) only when J exceeds the maximum; an EB
\* from any other sender changes neither the join priority nor the
\* association.
C35_EbJoinPriority ==
  [][EbHandled =>
       IF FromTimeSource(task'.call.src)
       THEN IF task'.call.jp <= TSCH_MAX_JOIN_PRIORITY
            THEN tsch_join_priority' = task'.call.jp + 1 /\ associated' = 1
            ELSE associated' = 0
       ELSE UNCHANGED <<tsch_join_priority, associated>>]_vars

\* The slot that ends saw a sync event: an ACK of the time source or a frame
\* received from it.
SyncEvent ==
  /\ isr.pc = "slot"
  /\ \/ /\ "ack" \in DOMAIN isr /\ isr.ack.tx /\ isr.ack.ok
        /\ neighbor_memb[isr.n].is_time_source = 1
     \/ /\ "rd" \in DOMAIN isr /\ isr.rd.activity
        /\ \E n \in ListedNbrs : /\ neighbor_memb[n].addr = isr.rd.src
                                 /\ neighbor_memb[n].is_time_source = 1

\* C34: a drift correction measured during a slot, from an ACK of the time
\* source or from a frame received from it, is added exactly once, to the
\* start of the next scheduled slot, and is then cleared: the next start is
\* the previous start plus the slots advanced times TsSlotDuration plus
\* drift_correction, also when missed deadlines make the epilogue skip further
\* slots; the start of the slot in which it was measured is not changed, and
\* without a sync event the next start is the previous start plus the slots
\* advanced times TsSlotDuration.
C34_DriftAppliedOnce ==
  [][/\ EpilogueTaken =>
          /\ current_link_start'
               = current_link_start + (current_asn' - current_asn) * TsSlotDuration
                   + drift_correction
          /\ drift_correction' = 0
          /\ ~SyncEvent => drift_correction = 0
     /\ ~EpilogueTaken /\ associated = 1 /\ isr.pc \in {"yield", "txlink", "slot"} =>
          current_link_start' = current_link_start
     /\ drift_correction' # drift_correction /\ drift_correction' # 0 =>
          isr.pc \in {"txlink", "slot"} /\ SyncEvent']_vars

\* C34 witness: the slot after one in which a frame of the time source was
\* received starts three ticks early, the drift measured on that frame.
C34_RxDriftApplied ==
  /\ isr.pc = "yield" /\ isr.r = 1 /\ associated = 1
  /\ input_array = <<1>> /\ drift_correction = 0
  /\ current_link_start = current_asn * TsSlotDuration - 3

\* Where packet p waits: the positions of the neighbor queues and of the
\* dequeued ring that hold it.
QueueRefs(p) ==
  {<<n, i>> \in (1 .. MaxNbrs) \X (1 .. RingSize) :
     /\ i <= ringbufindex_elements(neighbor_memb[n])
     /\ RingSeq(neighbor_memb, n)[i] = p}
RingRefs(p) == {i \in 1 .. Len(dequeued_array) : dequeued_array[i] = p}
\* The packet has been accepted and its callback is still due.
Pending(p) == QueueRefs(p) # {} \/ RingRefs(p) # {}
\* The callback for p that the flush of its queue makes.
FlushCallback(p) ==
  [called |-> TRUE, status |-> MAC_TX_ERR, transmissions |-> packet_memb[p].transmissions]
\* The callback for p that the pending-events process makes.
RingCallback(p) ==
  [called |-> TRUE, status |-> packet_memb[p].ret,
   transmissions |-> packet_memb[p].transmissions]

C37_LockFreeAtRest == task.pc = "idle" => tsch_locked = 0

\* Link l is installed in a slotframe whose size puts the timeslot of l at
\* asn.
InstalledAt(l, asn) ==
  /\ link_memb[l].used
  /\ \E sf \in SlotframePtrs :
       /\ l \in LinksOf(sf)
       /\ slotframe_list[sf].handle = link_memb[l].slotframe_handle
       /\ asn % slotframe_list[sf].size = link_memb[l].timeslot

\* C38: whenever the slot routine starts executing a non-null current_link L
\* with current_asn = a, L is still installed and a mod the size of L's
\* slotframe is L's timeslot; this holds across the removal of links and of
\* slotframes and across the ASN correction that an EB makes.
C38_CurrentLinkInstalled ==
  [][isr.pc = "yield" /\ isr' # isr /\ current_link # NULL =>
       /\ InstalledAt(current_link, current_asn)
       /\ tsch_in_link_operation' = 1 => isr'.l = current_link]_vars

\* C38 witness: a slot operation runs on a link after an EB has corrected the
\* ASN.
C38_RunsAfterCorrection ==
  /\ isr.pc = "slot" /\ isr.l = current_link /\ tsch_in_link_operation = 1
  /\ task.op = "rx_eb" /\ task.pc = "idle" /\ task.r = 1 /\ task.call.asn_diff # 0
  /\ InstalledAt(current_link, current_asn)

\* C39: while the timers of a started slot keep firing, every call of
\* tsch_get_lock returns: the caller that waits for the slot operation in
\* progress stops waiting, because every step that ends a started slot
\* operation (after a transmission, a reception or an idle slot, with or
\* without missed deadlines, also when the node leaves the network) clears
\* tsch_in_link_operation, and no new slot operation starts while the caller
\* waits, so the wait ends within the slot that was in progress.
BusyWaiting == task.pc = "wait"

C39_GetLockTerminates ==
  /\ BusyWaiting ~> ~BusyWaiting
  /\ [][/\ isr.pc = "slot" /\ isr'.pc # "slot" =>
             /\ isr'.pc \in {"yield", "ended"}
             /\ tsch_in_link_operation' = 0
        /\ BusyWaiting /\ BusyWaiting' /\ tsch_in_link_operation = 0 =>
             tsch_in_link_operation' = 0]_vars

\* the caller asked for the lock during a transmission and is still waiting
\* when the acknowledgement has been dealt with and the slot is about to end
C39_WaitedThroughSlot ==
  /\ BusyWaiting
  /\ isr.pc = "slot" /\ "ack" \in DOMAIN isr
  /\ tsch_in_link_operation = 1
  /\ tsch_lock_requested = 1

\* C40: while the node stays associated, every run of the slot routine ends
\* with the timer armed for the start of a later slot.  The epilogue loop ends
\* after the missed slots have been skipped: each of its iterations advances
\* the ASN by at least one slot and the start time with it, by exactly one
\* slot when the schedule has no link or while the lock is held.  So the slot
\* routine is called again: an armed timer is followed by a later ASN for as
\* long as the node is associated.
SlotRoutineReturns ==
  /\ associated = 1 /\ associated' = 1
  /\ isr.pc \in {"yield", "slot"}
  /\ isr' # isr
  /\ isr'.pc \notin {"slot", "txlink"}

NoNextLink == tsch_locked = 1 \/ \A l \in 1 .. MaxLinks : ~link_memb[l].used

C40_TimerRearmed ==
  /\ \A k \in 0 .. MaxAsn :
       (associated = 1 /\ isr.pc = "yield" /\ current_asn = k)
         ~> (associated = 0 \/ current_asn > k)
  /\ [][SlotRoutineReturns =>
          /\ isr'.pc = "yield"
          /\ tsch_in_link_operation' = 0
          /\ current_asn' >= current_asn + 1
          /\ current_link_start' - current_link_start + drift_correction
               = (current_asn' - current_asn) * TsSlotDuration
          /\ NoNextLink =>
               /\ current_link' = NULL
               /\ current_asn' - current_asn \in 1 .. MaxMissed + 1]_vars

\* the lock is held by a caller when a slot has ended: the timer is armed
\* for the slot that follows, without a link
C40_RearmedUnderLock ==
  /\ associated = 1
  /\ isr.pc = "yield" /\ isr.r = 1
  /\ task.pc = "crit" /\ tsch_locked = 1
  /\ current_link = NULL
  /\ \E l \in 1 .. MaxLinks : link_memb[l].used

====
